---- MODULE Spec2Model ----
(***************************************************************************)
(* A model of the gitmem interpreter: versioned globals with per-variable  *)
(* commit histories, the statement stepper, the thread driver, the         *)
(* concrete round-robin scheduler and the trace-tree explorer.             *)
(***************************************************************************)
EXTENDS Integers, Sequences, FiniteSets, TLC

VARIABLES
    mode,       \* which driver runs: "free", "concrete" or "explore"
    prog,       \* the statement tree: a sequence of blocks, block 1 is the file's block
    order,      \* the order in which an unordered_map of globals is iterated
    gctx,       \* GlobalContext of the free scheduler
    last,       \* the last call of the free scheduler: thread and returned status
    drv,        \* the concrete driver: its phase, the last round's result, the exit code
    mc          \* the explorer: trace tree, cursor, recorded terminal states, exit code

vars == <<mode, prog, order, gctx, last, drv, mc>>

(***************************************************************************)
(* std::optional                                                           *)
(***************************************************************************)
None == <<>>
Some(x) == <<x>>
HasValue(o) == Len(o) > 0
Value(o) == o[1]

Min(a, b) == IF a < b THEN a ELSE b

(***************************************************************************)
(* The statement tree (lang.hh).  A Spawn names its block by index into    *)
(* prog: the index is the identity of the Block node.                      *)
(***************************************************************************)
Reg(n) == [e |-> "Reg", name |-> n]
Var(n) == [e |-> "Var", name |-> n]
Const(digits) == [e |-> "Const", text |-> digits]
Spawn(b) == [e |-> "Spawn", block |-> b]
Eq(l, r) == [e |-> "Eq", lhs |-> l, rhs |-> r]
Neq(l, r) == [e |-> "Neq", lhs |-> l, rhs |-> r]

Nop == [s |-> "Nop"]
Assign(lv, ex) == [s |-> "Assign", lval |-> lv, expr |-> ex]
Join(ex) == [s |-> "Join", expr |-> ex]
Lock(v) == [s |-> "Lock", var |-> v]
Unlock(v) == [s |-> "Unlock", var |-> v]
AssertStmt(ex) == [s |-> "Assert", expr |-> ex]
If(ex, then, else) == [s |-> "If", expr |-> ex, then |-> then, else |-> else]
Cond(ex, length) == [s |-> "Cond", expr |-> ex, length |-> length]
Jump(length) == [s |-> "Jump", length |-> length]

\* std::to_string of a size: its decimal digits
RECURSIVE to_string(_)
to_string(n) == IF n < 10 THEN <<n>> ELSE Append(to_string(n \div 10), n % 10)

(***************************************************************************)
(* The branching pass (passes/branching.cc): bottom-up, every If becomes   *)
(* cond, the then-block, jump, the else-block, spliced into its block.     *)
(***************************************************************************)
\* a plausible slip: the jump that ends the then-block is not counted
then_length_short(then) == to_string(Len(then) + 1)

\* line 17
then_length(then) == to_string(Len(then) + 1 + 1)

\* line 18
else_length(else) == to_string(Len(else) + 1)

\* lines 21-26: then and else are blocks that the pass has been through
branched(ex, then, else) ==
    <<Cond(ex, Const(then_length(then)))>> \o then
        \o <<Jump(Const(else_length(else)))>> \o else

RECURSIVE branching(_)
branching(block) ==
    IF Len(block) = 0 THEN <<>>
    ELSE (IF block[1].s = "If"
          THEN branched(block[1].expr, branching(block[1].then), branching(block[1].else))
          ELSE <<block[1]>>) \o branching(SubSeq(block, 2, Len(block)))

\* the blocks of a file after the pass
Lowered(file) == [b \in 1..Len(file) |-> branching(file[b])]

(***************************************************************************)
(* Versioned memory: commit, has_conflict, pull (interpreter.cc)           *)
(***************************************************************************)
Global(v, c, h) == [val |-> v, commit |-> c, history |-> h]

\* a plausible slip: the pending commit is appended and not cleared
commit_keeping(globals) ==
    [var \in DOMAIN globals |->
        IF HasValue(globals[var].commit)
        THEN Global(globals[var].val, globals[var].commit,
                    Append(globals[var].history, Value(globals[var].commit)))
        ELSE globals[var]]

\* a plausible slip: the committed id is left in place of the value
commit_resetting(globals) ==
    [var \in DOMAIN globals |->
        IF HasValue(globals[var].commit)
        THEN Global(Value(globals[var].commit), None,
                    Append(globals[var].history, Value(globals[var].commit)))
        ELSE globals[var]]

\* a plausible slip: the committed id is put in front of the history
commit_prepending(globals) ==
    [var \in DOMAIN globals |->
        IF HasValue(globals[var].commit)
        THEN Global(globals[var].val, None,
                    <<Value(globals[var].commit)>> \o globals[var].history)
        ELSE globals[var]]

commit(globals) ==
    [var \in DOMAIN globals |->
        IF HasValue(globals[var].commit)
        THEN Global(globals[var].val, None,
                    Append(globals[var].history, Value(globals[var].commit)))
        ELSE globals[var]]

\* a plausible slip: only the oldest commits are compared
has_conflict_first(h1, h2) == Len(h1) > 0 /\ Len(h2) > 0 /\ h1[1] # h2[1]

\* a plausible slip: histories of different length count as conflicting
has_conflict_lengths(h1, h2) ==
    Len(h1) # Len(h2) \/ \E i \in 1..Min(Len(h1), Len(h2)) : h1[i] # h2[i]

\* a plausible slip: the commits are tested for being equal
has_conflict_equal(h1, h2) == \E i \in 1..Min(Len(h1), Len(h2)) : h1[i] = h2[i]

has_conflict(h1, h2) ==
    LET length == Min(Len(h1), Len(h2))
    IN  \E i \in 1..length : h1[i] # h2[i]

\* a plausible slip: the source's version is taken whenever it differs in length
fast_forwards_any(src_var, dst_var) == Len(src_var.history) # Len(dst_var.history)

\* a plausible slip: the comparison is turned around
fast_forwards_shorter(src_var, dst_var) == Len(src_var.history) < Len(dst_var.history)

\* line 197: the source's version is adopted when its history is longer
fast_forwards(src_var, dst_var) == Len(src_var.history) > Len(dst_var.history)

RECURSIVE pullFrom(_, _, _, _)
pullFrom(dst, src, ord, i) ==
    IF i > Len(ord) THEN [ok |-> TRUE, dst |-> dst, src |-> src]
    ELSE LET var == ord[i] IN
         IF var \notin DOMAIN src THEN pullFrom(dst, src, ord, i + 1)
         ELSE IF var \in DOMAIN dst
              THEN IF has_conflict(src[var].history, dst[var].history)
                   THEN [ok |-> FALSE, dst |-> dst, src |-> src]
                   ELSE IF fast_forwards(src[var], dst[var])
                        THEN pullFrom([dst EXCEPT ![var].val = src[var].val,
                                                  ![var].history = src[var].history],
                                      src, ord, i + 1)
                        ELSE pullFrom(dst, src, ord, i + 1)
              ELSE pullFrom(dst @@ (var :> Global(src[var].val, None, src[var].history)),
                            src, ord, i + 1)

\* a plausible slip: after a merge without conflict dst is src
pull_assigning(dst, src, ord) ==
    [ok |-> pullFrom(dst, src, ord, 1).ok,
     dst |-> IF pullFrom(dst, src, ord, 1).ok THEN src ELSE dst,
     src |-> src]

pull(dst, src, ord) == pullFrom(dst, src, ord, 1)

(***************************************************************************)
(* The process state (interpreter.hh).  Thread ids count from 0, so thread *)
(* tid is threads[tid + 1]; pc counts from 0, so the statement at pc is    *)
(* block[pc + 1].  `terminated` is "none" for std::nullopt.                *)
(* Eight fields are history fields that the program does not hold: ev, the *)
(* statements, pulls and releases of the current driver call; held, the    *)
(* (lock, thread) pairs acquired and not yet released; guards, the locks   *)
(* that the writer held at every write of a global so far; crashed, set    *)
(* when the process has run into an out-of-range access; writes, the       *)
(* writes of globals in the order they were executed; met and published,   *)
(* the pairs (a, b) such that the view of thread a has reached thread b,   *)
(* or lock b, through unlocks and successful pulls of lock and join.       *)
(* entered is, for each lock, what its last locker had when it took it.    *)
(* The field oob is the outcome, fixed for a run, of a read of threads     *)
(* beyond its end, which is undefined: in "stuck" the read finds something *)
(* that is not a completed thread, in "trap" anything else happens and the *)
(* process is lost (crashed).                                              *)
(***************************************************************************)
EmptyMap == [v \in {} |-> 0]

LockNames == {"m", "a", "b"}

\* a plausible slip: the new thread starts without the globals of its parent
NewThread_empty(globals, block) ==
    [ctx |-> [locals |-> EmptyMap, globals |-> EmptyMap],
     block |-> block, pc |-> 0, terminated |-> "none"]

NewThread(globals, block) ==
    [ctx |-> [locals |-> EmptyMap, globals |-> globals],
     block |-> block, pc |-> 0, terminated |-> "none"]

NewLock == [globals |-> EmptyMap, owner |-> None]

InitialContext ==
    [threads |-> <<NewThread(EmptyMap, 1)>>,
     locks |-> EmptyMap,
     cache |-> EmptyMap,
     uuid |-> 0,
     ev |-> <<>>,
     held |-> {},
     guards |-> LockNames,
     crashed |-> FALSE,
     writes |-> <<>>,
     met |-> {},
     published |-> {},
     entered |-> EmptyMap,
     oob |-> "trap"]

OutOfRange == {"trap", "stuck"}

TerminationStatus ==
    {"completed", "datarace_exception", "unlock_exception",
     "assertion_failure_exception", "unassigned_variable_read_exception"}

ProgressStatus == {"progress", "no_progress"}

IsTermination(out) == out \in TerminationStatus

Ctx(g, tid) == g.threads[tid + 1].ctx

\* a plausible slip: a join does not count as a sync statement
is_syncing_locks(stmt) == stmt.s \in {"Lock", "Unlock"}

is_syncing(stmt) == stmt.s \in {"Join", "Lock", "Unlock"}

\* std::stoi of a decimal literal, given as its sequence of digits
RECURSIVE stoi(_)
stoi(digits) ==
    IF Len(digits) = 0 THEN 0
    ELSE 10 * stoi(SubSeq(digits, 1, Len(digits) - 1)) + digits[Len(digits)]

(***************************************************************************)
(* evaluate_expression: the value, or the termination status, and the      *)
(* process state after the evaluation (a spawn commits and adds a thread). *)
(***************************************************************************)
Evaluated(g, v) == [g |-> g, val |-> v, term |-> "none"]
Failed(g, status) == [g |-> g, val |-> 0, term |-> status]

\* a plausible slip: the id is read after the thread is appended
spawn_id_after(threads) == Len(threads) + 1

\* line 254: the id of a new thread is the number of threads before it
spawn_id(threads) == Len(threads)

\* history: thread tid, whose view was `view`, spawns thread child
Spawning(tid, child, block, view, mine) ==
    [op |-> "spawn", tid |-> tid, child |-> child, block |-> block, view |-> view,
     mine |-> mine]

RECURSIVE evaluate_expression(_, _, _)
evaluate_expression(expr, g, tid) ==
    LET ctx == Ctx(g, tid) IN
    CASE expr.e = "Reg" ->
            IF expr.name \in DOMAIN ctx.locals
            THEN Evaluated(g, ctx.locals[expr.name])
            ELSE Failed(g, "unassigned_variable_read_exception")
      [] expr.e = "Var" ->
            IF expr.name \in DOMAIN ctx.globals
            THEN Evaluated(g, ctx.globals[expr.name].val)
            ELSE Failed(g, "unassigned_variable_read_exception")
      [] expr.e = "Const" -> Evaluated(g, stoi(expr.text))
      [] expr.e = "Spawn" ->
            LET committed == commit(ctx.globals)
                new_tid == spawn_id(g.threads)
            IN  Evaluated([g EXCEPT !.threads =
                              Append([@ EXCEPT ![tid + 1].ctx.globals = committed],
                                     NewThread(committed, expr.block)),
                                    !.ev = Append(@, Spawning(tid, new_tid, expr.block,
                                                              ctx.globals, committed))],
                          new_tid)
      [] expr.e = "Eq" ->
            LET lhsEval == evaluate_expression(expr.lhs, g, tid) IN
            IF lhsEval.term # "none" THEN lhsEval
            ELSE LET rhsEval == evaluate_expression(expr.rhs, lhsEval.g, tid) IN
                 IF rhsEval.term # "none" THEN rhsEval
                 ELSE Evaluated(rhsEval.g, IF lhsEval.val = rhsEval.val THEN 1 ELSE 0)
      [] OTHER -> Evaluated(g, 0)

(***************************************************************************)
(* run_statement, one branch per statement kind.  Each gives the process   *)
(* state after the statement and its outcome: a ProgressStatus or a        *)
(* TerminationStatus.                                                      *)
(***************************************************************************)
Outcome(g, out) == [g |-> g, out |-> out]

SetGlobals(g, tid, globals) == [g EXCEPT !.threads[tid + 1].ctx.globals = globals]

Record(g, event) == [g EXCEPT !.ev = Append(@, event)]

\* lines 298-303: the write of a register
write_local(g, tid, name, val) ==
    [g EXCEPT !.threads[tid + 1].ctx.locals =
        [n \in DOMAIN @ \cup {name} |-> IF n = name THEN val ELSE @[n]]]

\* a plausible slip: the counter is read and not advanced
next_uuid_same(uuid) == uuid

\* line 310: gctx.uuid++
next_uuid(uuid) == uuid + 1

\* lines 304-312: the write of a global, with a fresh commit id
write_global(g, tid, var, val) ==
    [g EXCEPT !.threads[tid + 1].ctx.globals =
                  [v \in DOMAIN @ \cup {var} |->
                      IF v = var
                      THEN Global(val, Some(g.uuid),
                                  IF var \in DOMAIN @ THEN @[var].history ELSE <<>>)
                      ELSE @[v]],
              !.uuid = next_uuid(@),
              !.guards = {v \in @ : <<v, tid>> \in g.held},
              !.writes = Append(@, [tid |-> tid, var |-> var, val |-> val,
                                    id |-> g.uuid])]

\* the assignment once its right-hand side r is evaluated
assigned(stmt, r, tid) ==
    IF r.term # "none" THEN Outcome(r.g, r.term)
    ELSE IF stmt.lval.e = "Reg"
    THEN Outcome(write_local(r.g, tid, stmt.lval.name, r.val), "progress")
    ELSE Outcome(write_global(r.g, tid, stmt.lval.name, r.val), "progress")

run_assign(stmt, g, tid) == assigned(stmt, evaluate_expression(stmt.expr, g, tid), tid)

\* a plausible slip: the joined thread's pending writes are not committed
joinee_globals_pending(thread) == thread.ctx.globals

\* line 351: the joined thread's pending writes are committed before the pull
joinee_globals(thread) == commit(thread.ctx.globals)

\* pairs, when what has reached `from` by `edges` reaches `to` as well
Reached(pairs, edges, from, to) ==
    pairs \cup {<<p[1], to>> : p \in {q \in edges : q[2] = from}}

\* lines 353-356: the outcome of the join's pull
joined(g, tid, result, mine, theirs, pulled) ==
    Outcome(Record(SetGlobals([g EXCEPT !.threads[result + 1].ctx.globals = pulled.src,
                                        !.met = IF pulled.ok
                                                THEN Reached(@, @, result, tid) \cup
                                                     {<<result, tid>>}
                                                ELSE @],
                              tid, pulled.dst),
                   [op |-> "pull", by |-> "Join", tid |-> tid, from |-> result,
                    dst |-> mine, src |-> theirs, ok |-> pulled.ok,
                    after |-> pulled.dst]),
            IF pulled.ok THEN "progress" ELSE "datarace_exception")

\* lines 350-353: both views are committed, then the joiner pulls
pull_joinee(g, tid, result, mine, theirs) ==
    joined(g, tid, result, mine, theirs, pull(mine, theirs, order))

\* a plausible slip: a thread that has terminated in any way can be joined
joinee_terminated(thread) == thread.terminated # "none"

\* line 348: only a thread that has completed is joined
joinee_completed(thread) == thread.terminated = "completed"

\* what the join does once its target is known
join_target(g, tid, result) ==
    IF result >= Len(g.threads)
    THEN Outcome([g EXCEPT !.crashed = (g.oob = "trap")], "no_progress")
    ELSE IF joinee_completed(g.threads[result + 1])
    THEN pull_joinee(g, tid, result, commit(Ctx(g, tid).globals),
                     joinee_globals(g.threads[result + 1]))
    ELSE Outcome(g, "no_progress")

\* lines 330-341: the evaluated target r is put into the cache
cache_target(r, tid, key) ==
    IF r.term # "none" THEN Outcome(r.g, r.term)
    ELSE join_target([r.g EXCEPT !.cache = [k \in DOMAIN @ \cup {key} |->
                                               IF k = key THEN r.val ELSE @[k]]],
                     tid, r.val)

\* a plausible slip: the cache is never found to hold the expression
cache_contains_never(cache, key) == FALSE

\* line 330: gctx.cache.contains(expr)
cache_contains(cache, key) == key \in DOMAIN cache

run_join(stmt, g, tid, key) ==
    IF cache_contains(g.cache, key)
    THEN join_target(g, tid, g.cache[key])
    ELSE cache_target(evaluate_expression(stmt.expr, g, tid), tid, key)

\* a plausible slip: the owner is not looked at
is_owned_never(lock) == FALSE

\* line 373: a lock with an owner cannot be taken
is_owned(lock) == HasValue(lock.owner)

\* gctx.locks[var]: the entry, default-constructed when the name is new
WithLock(g, var) ==
    IF var \in DOMAIN g.locks THEN g ELSE [g EXCEPT !.locks = @ @@ (var :> NewLock)]

\* lines 378-383: the lock is owned, then the outcome of its pull
\* what a thread had when it took a lock: its registers and view before the
\* lock statement, the view the lock had stored, and whether that view holds
\* the writes of this thread alone
Entered(tid, ctx, stored, published) ==
    [tid |-> tid, ctx |-> ctx, stored |-> stored,
     alone |-> \A q \in published : q[1] = tid]

\* a plausible slip: a lock whose pull failed is given back
locked_releasing(g, tid, var, lock, mine, pulled) ==
    Outcome(Record(SetGlobals([g EXCEPT !.locks[var].owner = IF pulled.ok THEN Some(tid) ELSE None,
                                        !.locks[var].globals = pulled.src,
                                        !.entered =
                                            [v \in DOMAIN @ \cup {var} |->
                                                IF v = var
                                                THEN Entered(tid, Ctx(g, tid), lock.globals,
                                                             {r \in g.published : r[2] = var})
                                                ELSE @[v]],
                                        !.held = @ \cup {<<var, tid>>},
                                        !.met = IF pulled.ok
                                                THEN Reached(@, g.published, var, tid)
                                                ELSE @],
                              tid, pulled.dst),
                   [op |-> "pull", by |-> "Lock", tid |-> tid, from |-> var,
                    owner |-> lock.owner, dst |-> mine, src |-> lock.globals,
                    ok |-> pulled.ok, after |-> pulled.dst,
                    view |-> Ctx(g, tid).globals,
                    publishers |-> {q[1] : q \in {r \in g.published : r[2] = var}}]),
            IF pulled.ok THEN "progress" ELSE "datarace_exception")

locked(g, tid, var, lock, mine, pulled) ==
    Outcome(Record(SetGlobals([g EXCEPT !.locks[var].owner = Some(tid),
                                        !.locks[var].globals = pulled.src,
                                        !.entered =
                                            [v \in DOMAIN @ \cup {var} |->
                                                IF v = var
                                                THEN Entered(tid, Ctx(g, tid), lock.globals,
                                                             {r \in g.published : r[2] = var})
                                                ELSE @[v]],
                                        !.held = @ \cup {<<var, tid>>},
                                        !.met = IF pulled.ok
                                                THEN Reached(@, g.published, var, tid)
                                                ELSE @],
                              tid, pulled.dst),
                   [op |-> "pull", by |-> "Lock", tid |-> tid, from |-> var,
                    owner |-> lock.owner, dst |-> mine, src |-> lock.globals,
                    ok |-> pulled.ok, after |-> pulled.dst,
                    view |-> Ctx(g, tid).globals,
                    publishers |-> {q[1] : q \in {r \in g.published : r[2] = var}}]),
            IF pulled.ok THEN "progress" ELSE "datarace_exception")

\* lines 372-380: a lock with an owner blocks; otherwise commit and pull
try_lock(g, tid, var, mine) ==
    IF is_owned(g.locks[var]) THEN Outcome(g, "no_progress")
    ELSE locked(g, tid, var, g.locks[var], mine, pull(mine, g.locks[var].globals, order))

run_lock(stmt, g, tid) ==
    try_lock(WithLock(g, stmt.var), tid, stmt.var, commit(Ctx(g, tid).globals))

\* a plausible slip: only a lock without an owner is refused
not_owner_unowned(lock, tid) == ~HasValue(lock.owner)

\* line 399: !lock.owner || (lock.owner && *lock.owner != tid)
not_owner(lock, tid) == ~HasValue(lock.owner) \/ Value(lock.owner) # tid

\* a plausible slip: the view is stored and the owner is kept
stored_view_owned(lock, mine) == [globals |-> mine, owner |-> lock.owner]

\* lines 405-406: lock.globals = ctx.globals; lock.owner.reset()
stored_view(lock, mine) == [globals |-> mine, owner |-> None]

\* lines 398-408: with the unlocker's view committed as `mine`; `view` is
\* what it was before the commit
release(g, tid, var, mine, view) ==
    IF not_owner(g.locks[var], tid)
    THEN Outcome(g, "unlock_exception")
    ELSE Outcome(Record([g EXCEPT !.locks[var] = stored_view(@, mine),
                                  !.held = @ \ {<<var, tid>>},
                                  !.published =
                                      Reached({q \in @ : q[2] # var}, g.met, tid, var)
                                          \cup {<<tid, var>>}],
                        [op |-> "release", tid |-> tid, from |-> var, view |-> view,
                         ctx |-> Ctx(g, tid)]),
                 "progress")

\* a plausible slip: the view is stored as it is, without the commit
run_unlock_uncommitted(stmt, g, tid) ==
    release(WithLock(g, stmt.var), tid, stmt.var, Ctx(g, tid).globals, Ctx(g, tid).globals)

run_unlock(stmt, g, tid) ==
    release(WithLock(SetGlobals(g, tid, commit(Ctx(g, tid).globals)), stmt.var),
            tid, stmt.var, commit(Ctx(g, tid).globals), Ctx(g, tid).globals)

\* lines 414-429: the assertion once its condition r is evaluated
asserted(r) ==
    IF r.term # "none" THEN Outcome(r.g, r.term)
    ELSE IF r.val # 0 THEN Outcome(r.g, "progress")
    ELSE Outcome(r.g, "assertion_failure_exception")

run_assert(stmt, g, tid) == asserted(evaluate_expression(stmt.expr, g, tid))

\* Cond and Jump statements: e is evaluated, and the thread's pc is moved
\* past the block that is not to run (the statement's own step adds 1)
jumped(g, tid, length) == [g EXCEPT !.threads[tid + 1].pc = @ + length - 1]

Deciding(tid, val) == [op |-> "cond", tid |-> tid, val |-> val]

decided(stmt, r, tid) ==
    IF r.term # "none" THEN Outcome(r.g, r.term)
    ELSE Outcome(Record(IF r.val = 0 THEN jumped(r.g, tid, stoi(stmt.length.text)) ELSE r.g,
                        Deciding(tid, r.val)),
                 "progress")

run_cond(stmt, g, tid) == decided(stmt, evaluate_expression(stmt.expr, g, tid), tid)

run_jump(stmt, g, tid) == Outcome(jumped(g, tid, stoi(stmt.length.text)), "progress")

run_statement(stmt, g, tid, key) ==
    CASE stmt.s = "Nop" -> Outcome(g, "progress")
      [] stmt.s = "Cond" -> run_cond(stmt, g, tid)
      [] stmt.s = "Jump" -> run_jump(stmt, g, tid)
      [] stmt.s = "Assign" -> run_assign(stmt, g, tid)
      [] stmt.s = "Join" -> run_join(stmt, g, tid, key)
      [] stmt.s = "Lock" -> run_lock(stmt, g, tid)
      [] stmt.s = "Unlock" -> run_unlock(stmt, g, tid)
      [] stmt.s = "Assert" -> run_assert(stmt, g, tid)
      [] OTHER -> Outcome(g, "progress")

(***************************************************************************)
(* run_thread_to_sync: run thread tid until its next sync statement, a     *)
(* blocked statement, an error or the end of its block.                    *)
(***************************************************************************)
SetTerminated(g, tid, status) == [g EXCEPT !.threads[tid + 1].terminated = status]

RECURSIVE run_from(_, _, _)
RECURSIVE after_statement(_, _, _)
RECURSIVE run_at(_, _, _, _, _)

\* a plausible slip: the pc is advanced past a statement that terminated
after_statement_advancing(r, tid, first_statement) ==
    IF IsTermination(r.out)
    THEN Outcome(SetTerminated([r.g EXCEPT !.threads[tid + 1].pc = @ + 1], tid, r.out), r.out)
    ELSE IF r.out = "no_progress"
    THEN Outcome(r.g, IF first_statement THEN "no_progress" ELSE "progress")
    ELSE run_from([r.g EXCEPT !.threads[tid + 1].pc = @ + 1], tid, FALSE)

\* lines 459-472: what follows the outcome r of a statement
after_statement(r, tid, first_statement) ==
    IF IsTermination(r.out)
    THEN Outcome(SetTerminated(r.g, tid, r.out), r.out)
    ELSE IF r.out = "no_progress"
    THEN Outcome(r.g, IF first_statement THEN "no_progress" ELSE "progress")
    ELSE run_from([r.g EXCEPT !.threads[tid + 1].pc = @ + 1], tid, FALSE)

\* history: thread tid hands the statement at pc to run_statement
Executing(tid, pc, stmt) == [op |-> "stmt", tid |-> tid, pc |-> pc, s |-> stmt.s]

\* a plausible slip: stopping at a sync point counts as no progress
run_at_quiet(g, tid, first_statement, thread, stmt) ==
    IF ~first_statement /\ is_syncing(stmt) THEN Outcome(g, "no_progress")
    ELSE after_statement(run_statement(stmt, Record(g, Executing(tid, thread.pc, stmt)),
                                       tid, <<thread.block, thread.pc>>),
                         tid, first_statement)

\* lines 454-459: the statement at pc, unless it is a sync point to stop at
run_at(g, tid, first_statement, thread, stmt) ==
    IF ~first_statement /\ is_syncing(stmt) THEN Outcome(g, "progress")
    ELSE after_statement(run_statement(stmt, Record(g, Executing(tid, thread.pc, stmt)),
                                       tid, <<thread.block, thread.pc>>),
                         tid, first_statement)

run_from(g, tid, first_statement) ==
    IF g.threads[tid + 1].pc >= Len(prog[g.threads[tid + 1].block])
    THEN Outcome(SetTerminated(g, tid, "completed"), "completed")
    ELSE run_at(g, tid, first_statement, g.threads[tid + 1],
                prog[g.threads[tid + 1].block][g.threads[tid + 1].pc + 1])

run_thread_to_sync(g, tid) ==
    IF g.threads[tid + 1].terminated # "none"
    THEN Outcome(g, g.threads[tid + 1].terminated)
    ELSE run_from(g, tid, TRUE)

(***************************************************************************)
(* run_threads_to_sync and run_threads: the concrete scheduler.            *)
(***************************************************************************)
Or(p1, p2) == IF p1 = "progress" \/ p2 = "progress" THEN "progress" ELSE "no_progress"

RECURSIVE round_from(_, _, _, _)
RECURSIVE round_next(_, _, _, _, _)
RECURSIVE round_thread(_, _, _, _)

\* a plausible slip: the round returns the first error (see the comment at
\* lines 497-498)
round_next_stops(g, out, i, all_completed, any_progress) ==
    IF IsTermination(out) /\ out # "completed"
    THEN Outcome(g, out)
    ELSE round_from(g, i + 1,
                    all_completed /\ g.threads[i + 1].terminated # "none",
                    IF IsTermination(out) THEN "progress" ELSE Or(any_progress, out))

\* lines 491-503: the flags after thread i, whose state is now g
round_next(g, out, i, all_completed, any_progress) ==
    round_from(g, i + 1,
               all_completed /\ g.threads[i + 1].terminated # "none",
               IF IsTermination(out) THEN "progress" ELSE Or(any_progress, out))

\* lines 490-499: a termination returned by the thread is recorded
round_thread(r, i, all_completed, any_progress) ==
    round_next(IF IsTermination(r.out) THEN SetTerminated(r.g, i, r.out) ELSE r.g,
               r.out, i, all_completed, any_progress)

round_from(g, i, all_completed, any_progress) ==
    IF i >= Len(g.threads)
    THEN Outcome(g, IF all_completed THEN "completed" ELSE any_progress)
    ELSE IF g.threads[i + 1].terminated # "none"
    THEN round_from(g, i + 1, all_completed, any_progress)
    ELSE round_thread(run_thread_to_sync(g, i), i, all_completed, any_progress)

run_threads_to_sync(g) == round_from(g, 0, TRUE, "no_progress")

\* a plausible slip: a round without progress does not end the loop
is_finished_on_termination(prog_or_term) == prog_or_term \notin ProgressStatus

is_finished(prog_or_term) ==
    IF prog_or_term \in ProgressStatus THEN prog_or_term = "no_progress" ELSE TRUE

\* a plausible slip: a thread that is left without a termination status is
\* not counted
exit_code_errors(g) ==
    IF \E i \in 1..Len(g.threads) : g.threads[i].terminated \notin {"none", "completed"}
    THEN 1 ELSE 0

\* the classification loop at the end of run_threads
exit_code(g) ==
    IF \E i \in 1..Len(g.threads) : g.threads[i].terminated # "completed" THEN 1 ELSE 0

(***************************************************************************)
(* progress_thread: run_thread_to_sync, then every thread it spawned is    *)
(* itself advanced to its next sync point; progress is ORed over the burst.*)
(***************************************************************************)
RECURSIVE progress_thread(_, _)
RECURSIVE run_spawned(_, _, _, _)
RECURSIVE spawned_after(_, _)
RECURSIVE spawned_next(_, _, _, _)

\* progress is ORed across the burst; a termination of the thread is returned
burst_result(out, burst) ==
    Outcome(burst.g, IF IsTermination(out) THEN out ELSE Or(out, burst.out))

\* the threads appended during the step r are advanced in their turn
spawned_after(r, no_threads) ==
    burst_result(r.out, run_spawned(r.g, no_threads, Len(r.g.threads), "no_progress"))

progress_thread(g, tid) == spawned_after(run_thread_to_sync(g, tid), Len(g.threads))

spawned_next(c, i, end, any_progress) ==
    run_spawned(c.g, i + 1, end,
                Or(any_progress, IF IsTermination(c.out) THEN "progress" ELSE c.out))

run_spawned(g, i, end, any_progress) ==
    IF i >= end THEN Outcome(g, any_progress)
    ELSE spawned_next(progress_thread(g, i), i, end, any_progress)

(***************************************************************************)
(* Terminal-state equality: Thread::operator== and                         *)
(* GlobalContext::operator== (interpreter.hh).                             *)
(***************************************************************************)
ThreadEq(a, b) ==
    /\ Cardinality(DOMAIN a.ctx.globals) = Cardinality(DOMAIN b.ctx.globals)
    /\ \A var \in DOMAIN a.ctx.globals :
          /\ var \in DOMAIN b.ctx.globals
          /\ a.ctx.globals[var].val = b.ctx.globals[var].val
    /\ a.ctx.locals = b.ctx.locals
    /\ a.block = b.block
    /\ a.pc = b.pc
    /\ a.terminated = b.terminated

\* std::find_if: the first thread of `threads` that runs `block`, 0 when none does
FindBlock(threads, block) ==
    LET hits == {j \in 1..Len(threads) : threads[j].block = block}
    IN  IF hits = {} THEN 0 ELSE CHOOSE j \in hits : \A k \in hits : j <= k

ContextEq(a, b) ==
    /\ Len(a.threads) = Len(b.threads)
    /\ Cardinality(DOMAIN a.locks) = Cardinality(DOMAIN b.locks)
    /\ \A i \in 1..Len(a.threads) :
          LET it == FindBlock(b.threads, a.threads[i].block)
          IN  it # 0 /\ ThreadEq(a.threads[i], b.threads[it])
    /\ \A name \in DOMAIN a.locks :
          /\ name \in DOMAIN b.locks
          /\ a.locks[name].owner = b.locks[name].owner

(***************************************************************************)
(* model_check (model_checker.cc).  A TraceNode is named by the trace that *)
(* leads to it: nodes maps that trace to the node's complete flag and the  *)
(* thread ids of its children, in the order they were added.  The field    *)
(* first is a history field: the state in which each node was created.     *)
(***************************************************************************)
TraceNode == [complete |-> FALSE, children |-> <<>>]

RootTrace == <<0>>

NoExplorer ==
    [phase |-> "off", nodes |-> EmptyMap, cursor |-> <<>>,
     final_contexts |-> <<>>, final_traces |-> <<>>,
     failing_contexts |-> <<>>, failing_traces |-> <<>>,
     deadlocked_contexts |-> <<>>, deadlocked_traces |-> <<>>,
     extended |-> FALSE, exit |-> -1, first |-> EmptyMap]

LastChild(nodes, cursor) ==
    Append(cursor, nodes[cursor].children[Len(nodes[cursor].children)])

\* lines 87-94: follow the last child of each node while it is not complete
RECURSIVE replay(_, _, _)
RECURSIVE replay_child(_, _, _)

\* lines 90-93: the child's thread is advanced; a thread the state does not
\* have is an access out of range
replay_child(g, nodes, next) ==
    IF next[Len(next)] >= Len(g.threads)
    THEN [g |-> [g EXCEPT !.crashed = TRUE], cursor |-> next]
    ELSE replay(progress_thread(g, next[Len(next)]).g, nodes, next)

replay(g, nodes, cursor) ==
    IF Len(nodes[cursor].children) > 0 /\ ~nodes[LastChild(nodes, cursor)].complete
    THEN replay_child(g, nodes, LastChild(nodes, cursor))
    ELSE [g |-> g, cursor |-> cursor]

\* lines 100-129: the first thread from i on that terminates or makes progress
RECURSIVE try_from(_, _, _)
RECURSIVE tried_thread(_, _, _)

\* lines 107-127: thread i was advanced with result r
tried_thread(r, i, no_threads) ==
    IF IsTermination(r.out) \/ r.out = "progress"
    THEN [g |-> r.g, tid |-> i, out |-> r.out]
    ELSE try_from(r.g, i + 1, no_threads)

try_from(g, i, no_threads) ==
    IF i >= no_threads THEN [g |-> g, tid |-> -1, out |-> "no_progress"]
    ELSE IF g.threads[i + 1].terminated # "none" THEN try_from(g, i + 1, no_threads)
    ELSE tried_thread(progress_thread(g, i), i, no_threads)

AllCompleted(g) == \A i \in 1..Len(g.threads) : g.threads[i].terminated = "completed"

AnyCrashed(g) ==
    \E i \in 1..Len(g.threads) : g.threads[i].terminated \notin {"none", "completed"}

\* a plausible slip: the state is never found among the recorded ones
Seen_never(contexts, g) == FALSE

\* lines 150-152: std::any_of with state == gctx
Seen(contexts, g) == \E k \in 1..Len(contexts) : ContextEq(contexts[k], g)

\* a plausible slip: every termination closes the branch
ends_branch_always(out) == IsTermination(out)

\* lines 108-113: a thread that terminated with an error closes the branch
ends_branch(out) == IsTermination(out) /\ out # "completed"

\* a plausible slip: a node without extension is left open
exhausted_never(made_progress) == FALSE

\* lines 131-135: a node that no thread extends is complete
exhausted(made_progress) == ~made_progress

\* a plausible slip: the test of made_progress is inverted
is_deadlock_inverted(all_completed, made_progress, is_leaf) ==
    ~all_completed /\ made_progress /\ is_leaf

\* line 145
is_deadlock(all_completed, made_progress, is_leaf) ==
    ~all_completed /\ ~made_progress /\ is_leaf

\* line 97: the thread to start the search with
start_idx(children) == IF Len(children) = 0 THEN 0 ELSE children[Len(children)] + 1

\* lines 171-183: the iteration's result; a complete cursor below an open
\* root restarts the trace on a new GlobalContext
restarted(m, g1, g2, made_progress, cursor1, nodes2, new, any_crashed, deadlock, restart) ==
    [g |-> g2,
     m |-> [m EXCEPT
              !.phase = IF g1.crashed \/ g2.crashed THEN "crashed"
                        ELSE IF nodes2[RootTrace].complete THEN "done" ELSE "loop",
              !.nodes = nodes2,
              !.cursor = IF restart THEN RootTrace ELSE cursor1,
              !.extended = made_progress,
              !.final_contexts = IF new THEN Append(@, g1) ELSE @,
              !.final_traces = IF new THEN Append(@, cursor1) ELSE @,
              !.failing_contexts = IF new /\ any_crashed THEN Append(@, g1) ELSE @,
              !.failing_traces = IF new /\ any_crashed THEN Append(@, cursor1) ELSE @,
              !.deadlocked_contexts =
                  IF new /\ ~any_crashed /\ deadlock THEN Append(@, g1) ELSE @,
              !.deadlocked_traces =
                  IF new /\ ~any_crashed /\ deadlock THEN Append(@, cursor1) ELSE @]]

\* line 171: cursor->complete && !root->complete
restarting(m, g1, made_progress, cursor1, nodes2, new, any_crashed, deadlock, restart) ==
    restarted(m, g1, IF restart THEN progress_thread(InitialContext, 0).g ELSE g1,
              made_progress, cursor1, nodes2, new, any_crashed, deadlock, restart)

\* lines 147-169: a final state is recorded when it is new, its node is complete
recorded(m, g1, made_progress, cursor1, nodes2, final, any_crashed, deadlock) ==
    restarting(m, g1, made_progress, cursor1, nodes2,
               final /\ ~Seen(m.final_contexts, g1), any_crashed, deadlock,
               nodes2[cursor1].complete /\ ~nodes2[RootTrace].complete)

\* line 147: all_completed || any_crashed || is_deadlock
classified(m, g1, made_progress, cursor1, nodes1, all_completed, any_crashed, deadlock) ==
    recorded(m, g1, made_progress, cursor1,
             IF all_completed \/ any_crashed \/ deadlock
             THEN [nodes1 EXCEPT ![cursor1].complete = TRUE] ELSE nodes1,
             all_completed \/ any_crashed \/ deadlock, any_crashed, deadlock)

\* lines 137-145
classify(m, g1, made_progress, cursor1, nodes1) ==
    classified(m, g1, made_progress, cursor1, nodes1, AllCompleted(g1), AnyCrashed(g1),
               is_deadlock(AllCompleted(g1), made_progress,
                           Len(nodes1[cursor1].children) = 0))

\* lines 104-135: the tree after the search: a new child of the node `at`, or
\* the node complete
extended_nodes(nodes, at, tried) ==
    IF tried.tid # -1
    THEN [nodes EXCEPT ![at].children = Append(@, tried.tid)] @@
         (Append(at, tried.tid) :> [TraceNode EXCEPT !.complete = ends_branch(tried.out)])
    ELSE [nodes EXCEPT ![at].complete = exhausted(tried.tid # -1)]

\* lines 115-120: the state the new node was created in
noted(m, at, tried) ==
    IF tried.tid # -1
    THEN [m EXCEPT !.first = (Append(at, tried.tid) :> tried.g) @@ @]
    ELSE m

\* lines 96-135: with the outcome of the search for a thread to schedule
extended(m, at, tried) ==
    classify(noted(m, at, tried), tried.g, tried.tid # -1,
             IF tried.tid # -1 THEN Append(at, tried.tid) ELSE at,
             extended_nodes(m.nodes, at, tried))

\* lines 96-99: with the replayed state and cursor
played_to(m, played) ==
    extended(m, played.cursor,
             try_from(played.g, start_idx(m.nodes[played.cursor].children),
                      Len(played.g.threads)))

\* one iteration of the loop at lines 85-184
explore(m, g) == played_to(m, replay(g, m.nodes, m.cursor))

(***************************************************************************)
(* Programs                                                                *)
(***************************************************************************)
One == <<1>>
Two == <<2>>
Zero == <<0>>

\* $r = 1; x = $r; assert x == 1;
Sequential ==
    << <<Assign(Reg("$r"), Const(One)), Assign(Var("x"), Reg("$r")),
         AssertStmt(Eq(Var("x"), Const(One)))>> >>

\* t = spawn { x = 1; }; x = 2; join t;
RacingWrites ==
    << <<Assign(Var("t"), Spawn(2)), Assign(Var("x"), Const(Two)), Join(Var("t"))>>,
       <<Assign(Var("x"), Const(One))>> >>

\* t = spawn { lock m; x = 1; unlock m; }; lock m; x = 2; unlock m; join t;
LockOrdered ==
    << <<Assign(Var("t"), Spawn(2)), Lock("m"), Assign(Var("x"), Const(Two)),
         Unlock("m"), Join(Var("t"))>>,
       <<Lock("m"), Assign(Var("x"), Const(One)), Unlock("m")>> >>

\* assert y == 0;
UninitRead == << <<AssertStmt(Eq(Var("y"), Const(Zero)))>> >>

\* $r = 1; assert $r == 2;
AssertFails ==
    << <<Assign(Reg("$r"), Const(One)), AssertStmt(Eq(Reg("$r"), Const(Two)))>> >>

\* t = spawn { lock a; lock b; unlock b; unlock a; };
\* lock b; lock a; unlock a; unlock b; join t;
LockCycle ==
    << <<Assign(Var("t"), Spawn(2)), Lock("b"), Lock("a"), Unlock("a"), Unlock("b"),
         Join(Var("t"))>>,
       <<Lock("a"), Lock("b"), Unlock("b"), Unlock("a")>> >>

\* x = 1; $t = spawn { nop; }; x = 2; join $t;
ParentAhead ==
    << <<Assign(Var("x"), Const(One)), Assign(Reg("$t"), Spawn(2)),
         Assign(Var("x"), Const(Two)), Join(Reg("$t"))>>,
       <<Nop>> >>

\* x = 1; $t = spawn { x = 2; y = 3; }; join $t; assert x == 2;
ChildAhead ==
    << <<Assign(Var("x"), Const(One)), Assign(Reg("$t"), Spawn(2)), Join(Reg("$t")),
         AssertStmt(Eq(Var("x"), Const(Two)))>>,
       <<Assign(Var("x"), Const(Two)), Assign(Var("y"), Const(<<3>>))>> >>

\* $t = spawn { x = 1; y = 1; }; x = 2; join $t;
RaceAndNew ==
    << <<Assign(Reg("$t"), Spawn(2)), Assign(Var("x"), Const(Two)), Join(Reg("$t"))>>,
       <<Assign(Var("x"), Const(One)), Assign(Var("y"), Const(One))>> >>

\* x = 1; $t = spawn { x = 2; y = 2; }; y = 1; join $t;
RaceAndForward ==
    << <<Assign(Var("x"), Const(One)), Assign(Reg("$t"), Spawn(2)),
         Assign(Var("y"), Const(One)), Join(Reg("$t"))>>,
       <<Assign(Var("x"), Const(Two)), Assign(Var("y"), Const(Two))>> >>

\* join spawn { x = 1; }; assert x == 1;
JoinSpawn ==
    << <<Join(Spawn(2)), AssertStmt(Eq(Var("x"), Const(One)))>>,
       <<Assign(Var("x"), Const(One))>> >>

\* unlock m;
UnlockUnheld == << <<Unlock("m")>> >>

\* $t = spawn { lock m; unlock m; }; lock m; join $t; unlock m;
JoinWhileHolding ==
    << <<Assign(Reg("$t"), Spawn(2)), Lock("m"), Join(Reg("$t")), Unlock("m")>>,
       <<Lock("m"), Unlock("m")>> >>

\* $t = spawn { nop; lock m; unlock m; }; lock m; join $t; unlock m;
JoinWhileHoldingLate ==
    << <<Assign(Reg("$t"), Spawn(2)), Lock("m"), Join(Reg("$t")), Unlock("m")>>,
       <<Nop, Lock("m"), Unlock("m")>> >>

\* $t = spawn { x = 1; lock m; unlock m; }; x = 2; lock m; unlock m; join $t;
RaceThroughLock ==
    << <<Assign(Reg("$t"), Spawn(2)), Assign(Var("x"), Const(Two)), Lock("m"),
         Unlock("m"), Join(Reg("$t"))>>,
       <<Assign(Var("x"), Const(One)), Lock("m"), Unlock("m")>> >>

\* $a = spawn { nop; lock m; x = 1; unlock m; };
\* $b = spawn { nop; lock m; x = 2; unlock m; }; join $a; join $b;
TwoWriters ==
    << <<Assign(Reg("$a"), Spawn(2)), Assign(Reg("$b"), Spawn(3)),
         Join(Reg("$a")), Join(Reg("$b"))>>,
       <<Nop, Lock("m"), Assign(Var("x"), Const(One)), Unlock("m")>>,
       <<Nop, Lock("m"), Assign(Var("x"), Const(Two)), Unlock("m")>> >>

\* $t = spawn { assert x == 1; }; join $t;
JoinFailed ==
    << <<Assign(Reg("$t"), Spawn(2)), Join(Reg("$t"))>>,
       <<AssertStmt(Eq(Var("x"), Const(One)))>> >>

\* x = 1; $t = spawn { x = 2; }; x = 3; join $t;
RaceAfterCommon ==
    << <<Assign(Var("x"), Const(One)), Assign(Reg("$t"), Spawn(2)),
         Assign(Var("x"), Const(<<3>>)), Join(Reg("$t"))>>,
       <<Assign(Var("x"), Const(Two))>> >>

\* $t = spawn { lock m; unlock m; x = 1; lock a; };
\* lock m; unlock m; x = 2; lock b; join $t;
DivergedAfterSync ==
    << <<Assign(Reg("$t"), Spawn(2)), Lock("m"), Unlock("m"),
         Assign(Var("x"), Const(Two)), Lock("b"), Join(Reg("$t"))>>,
       <<Lock("m"), Unlock("m"), Assign(Var("x"), Const(One)), Lock("a")>> >>

\* $t = spawn { lock m; x = 1; unlock m; }; lock m; x = 2; unlock m; join $t;
LockOrderedReg ==
    << <<Assign(Reg("$t"), Spawn(2)), Lock("m"), Assign(Var("x"), Const(Two)),
         Unlock("m"), Join(Reg("$t"))>>,
       <<Lock("m"), Assign(Var("x"), Const(One)), Unlock("m")>> >>

\* lock m; x = 1; unlock m; x = 2; lock m; unlock m; assert x == 2;
Relock ==
    << <<Lock("m"), Assign(Var("x"), Const(One)), Unlock("m"),
         Assign(Var("x"), Const(Two)), Lock("m"), Unlock("m"),
         AssertStmt(Eq(Var("x"), Const(Two)))>> >>

\* $t = spawn { lock m; x = 1; unlock m; }; assert 1 == 2;
FailWhileChildRuns ==
    << <<Assign(Reg("$t"), Spawn(2)), AssertStmt(Eq(Const(One), Const(Two)))>>,
       <<Lock("m"), Assign(Var("x"), Const(One)), Unlock("m")>> >>

\* $a = spawn { lock m; nop; unlock m; }; join spawn { lock m; unlock m; }; join $a;
JoinSpawnWaiting ==
    << <<Assign(Reg("$a"), Spawn(2)), Join(Spawn(3)), Join(Reg("$a"))>>,
       <<Lock("m"), Nop, Unlock("m")>>,
       <<Lock("m"), Unlock("m")>> >>

\* $t = spawn { x = 2; lock m; unlock m; }; x = 1; lock m; unlock m; lock m;
RaceAtLock ==
    << <<Assign(Reg("$t"), Spawn(2)), Assign(Var("x"), Const(One)),
         Lock("m"), Unlock("m"), Lock("m")>>,
       <<Assign(Var("x"), Const(Two)), Lock("m"), Unlock("m")>> >>

\* x = 1; lock m; x = 2; unlock m; x = 1;
WriteThrice ==
    << <<Assign(Var("x"), Const(One)), Lock("m"), Assign(Var("x"), Const(Two)),
         Unlock("m"), Assign(Var("x"), Const(One))>> >>

\* $r = 1; if ($r == 1) { x = 1; } else { x = 2; }; assert x == 1;
IfTaken ==
    << <<Assign(Reg("$r"), Const(One)),
         If(Eq(Reg("$r"), Const(One)),
            <<Assign(Var("x"), Const(One))>>, <<Assign(Var("x"), Const(Two))>>),
         AssertStmt(Eq(Var("x"), Const(One)))>> >>

\* $r = 2; if ($r == 1) { x = 1; y = 1; } else { x = 2; }; assert x == 2;
IfNotTaken ==
    << <<Assign(Reg("$r"), Const(Two)),
         If(Eq(Reg("$r"), Const(One)),
            <<Assign(Var("x"), Const(One)), Assign(Var("y"), Const(One))>>,
            <<Assign(Var("x"), Const(Two))>>),
         AssertStmt(Eq(Var("x"), Const(Two)))>> >>

\* $t = spawn { if (x == 1) { y = 1; } else { nop; }; };
\* if ($t == 1) { if ($t == 2) { x = 1; } else { x = 2; }; } else { x = 3; };
\* join $t;
IfNested ==
    << <<Assign(Reg("$t"), Spawn(2)),
         If(Eq(Reg("$t"), Const(One)),
            <<If(Eq(Reg("$t"), Const(Two)),
                 <<Assign(Var("x"), Const(One))>>, <<Assign(Var("x"), Const(Two))>>)>>,
            <<Assign(Var("x"), Const(<<3>>))>>),
         Join(Reg("$t"))>>,
       <<If(Eq(Var("x"), Const(One)), <<Assign(Var("y"), Const(One))>>, <<Nop>>)>> >>

\* the files with an if, as the statements pass leaves them
Branching == <<IfTaken, IfNotTaken, IfNested>>

Programs ==
    <<Sequential, RacingWrites, LockOrdered, UninitRead, AssertFails, LockCycle,
      ParentAhead, ChildAhead, RaceAndNew, RaceAndForward, JoinSpawn, UnlockUnheld,
      JoinWhileHolding, JoinWhileHoldingLate, RaceThroughLock, TwoWriters, JoinFailed,
      LockOrderedReg, RaceAfterCommon, DivergedAfterSync, Relock,
      FailWhileChildRuns, JoinSpawnWaiting, RaceAtLock, WriteThrice,
      Lowered(IfTaken), Lowered(IfNotTaken), Lowered(IfNested)>>

(***************************************************************************)
(* A family of two-thread programs: the file's block spawns the other      *)
(* block, runs a body and joins; each body is a sequence of at most MaxLen *)
(* statements out of lock m, unlock m and a write of x.                    *)
(***************************************************************************)
MaxLen == 3

Letters == {"lock", "unlock", "write"}

Bodies == UNION {[1..n -> Letters] : n \in 0..MaxLen}

Statement(letter, value) ==
    CASE letter = "lock" -> Lock("m")
      [] letter = "unlock" -> Unlock("m")
      [] letter = "write" -> Assign(Var("x"), Const(value))

Body(letters, value) == [k \in 1..Len(letters) |-> Statement(letters[k], value)]

Generated(parent, child) ==
    << <<Assign(Reg("$t"), Spawn(2))>> \o Body(parent, Two) \o <<Join(Reg("$t"))>>,
       Body(child, One) >>

IsProgram(p) ==
    \/ \E k \in 1..Len(Programs) : p = Programs[k]
    \/ \E parent \in Bodies, child \in Bodies \ {<<>>} : p = Generated(parent, child)

\* The same with a join of whatever thread id is in a register: the file's
\* thread (0), the spawned thread (1), or an id that no thread has (2, 3).
Handles == {Zero, One, Two, <<3>>}

ShortBodies == {body \in Bodies : Len(body) <= 1}

JoinOfHandle(handle, parent, child) ==
    << <<Assign(Reg("$t"), Spawn(2)), Assign(Reg("$r"), Const(handle))>>
           \o Body(parent, Two) \o <<Join(Reg("$r"))>>,
       Body(child, One) >>

IsHandleProgram(p) ==
    \E handle \in Handles, parent \in ShortBodies, child \in ShortBodies \ {<<>>} :
        p = JoinOfHandle(handle, parent, child)

Orders == {<<"t", "x", "y">>, <<"y", "x", "t">>}

(***************************************************************************)
(* The free scheduler: any thread, in any order, is run to its next sync   *)
(* point.  The concrete driver: rounds of run_threads_to_sync until one is *)
(* finished, then the exit code.                                           *)
(***************************************************************************)
Fresh(g) == [g EXCEPT !.ev = <<>>]

NoCall == [tid |-> -1, before |-> "none", out |-> "none"]

Called(g, tid, out) ==
    [tid |-> tid, before |-> g.threads[tid + 1].terminated, out |-> out]

Idle == [phase |-> "idle", result |-> "none", exit |-> -1]

Init ==
    /\ mode \in {"free", "concrete"}
    /\ IsProgram(prog)
    /\ order \in Orders
    /\ gctx = InitialContext
    /\ last = NoCall
    /\ drv = IF mode = "concrete" THEN [Idle EXCEPT !.phase = "running"] ELSE Idle
    /\ mc = NoExplorer

\* the call of thread tid has returned r
Returned(r, tid) ==
    /\ gctx' = r.g
    /\ last' = Called(gctx, tid, r.out)

Step(tid) ==
    /\ mode = "free"
    /\ ~gctx.crashed
    /\ Returned(run_thread_to_sync(Fresh(gctx), tid), tid)
    /\ UNCHANGED <<mode, prog, order, drv, mc>>

\* lines 531-535: the round has returned r
RoundReturned(r) ==
    /\ gctx' = r.g
    /\ drv' = [drv EXCEPT !.phase = IF r.g.crashed THEN "crashed"
                                    ELSE IF is_finished(r.out) THEN "finished"
                                    ELSE "running",
                          !.result = r.out]

Round ==
    /\ mode = "concrete"
    /\ drv.phase = "running"
    /\ RoundReturned(run_threads_to_sync(Fresh(gctx)))
    /\ UNCHANGED <<mode, prog, order, last, mc>>

Report ==
    /\ mode = "concrete"
    /\ drv.phase = "finished"
    /\ drv' = [drv EXCEPT !.phase = "exited", !.exit = exit_code(gctx)]
    /\ UNCHANGED <<mode, prog, order, gctx, last, mc>>

Next ==
    \/ \E tid \in 0..(Len(gctx.threads) - 1) : Step(tid)
    \/ Round
    \/ Report

Spec == Init /\ [][Next]_vars

\* the runs of the programs that join a thread id out of a register
InitHandles ==
    /\ mode \in {"free", "concrete"}
    /\ IsHandleProgram(prog)
    /\ order \in Orders
    /\ gctx \in {[InitialContext EXCEPT !.oob = outcome] : outcome \in OutOfRange}
    /\ last = NoCall
    /\ drv = IF mode = "concrete" THEN [Idle EXCEPT !.phase = "running"] ELSE Idle
    /\ mc = NoExplorer

SpecHandles == InitHandles /\ [][Next]_vars

\* run_threads is a loop of a single thread of control: it keeps going.  A
\* round changes the state whenever the driver is running, so the first
\* conjunct is WF_vars(Round) with the enabling condition written out.
SpecFair ==
    /\ Spec
    /\ ([]<>(~(mode = "concrete" /\ drv.phase = "running")) \/ []<><<Round>>_vars)
    /\ WF_vars(Report)

(***************************************************************************)
(* The explorer, and after it has ended the schedules it is compared with: *)
(* thread 0 first, then any thread that is not terminated, until the state *)
(* is terminal.  A schedule of grain "sync" advances the chosen thread by  *)
(* run_thread_to_sync; a schedule of grain "turn" advances it by           *)
(* progress_thread, as the explorer itself does.                           *)
(***************************************************************************)
InitExplore ==
    /\ mode = "explore"
    /\ IsProgram(prog)
    /\ order \in Orders
    /\ gctx = InitialContext
    /\ last = NoCall
    /\ drv = Idle
    /\ mc = [NoExplorer EXCEPT !.phase = "start"]

\* lines 69-83
Begin ==
    /\ mc.phase = "start"
    /\ gctx' = progress_thread(Fresh(gctx), 0).g
    /\ mc' = [mc EXCEPT !.phase = IF gctx'.crashed THEN "crashed" ELSE "loop",
                        !.nodes = (RootTrace :> TraceNode),
                        !.cursor = RootTrace]
    /\ UNCHANGED <<mode, prog, order, last, drv>>

\* lines 85-184
Explored(r) ==
    /\ gctx' = r.g
    /\ mc' = r.m

Explore ==
    /\ mc.phase = "loop"
    /\ Explored(explore(mc, Fresh(gctx)))
    /\ UNCHANGED <<mode, prog, order, last, drv>>

\* a plausible slip: deadlocked traces do not count
exit_status_failing(m) == IF Len(m.failing_traces) = 0 THEN 0 ELSE 1

\* line 214
exit_status(m) ==
    IF Len(m.deadlocked_traces) = 0 /\ Len(m.failing_traces) = 0 THEN 0 ELSE 1

\* lines 186-214
Finish ==
    /\ mc.phase = "done"
    /\ mc' = [mc EXCEPT !.phase = "exited", !.exit = exit_status(mc)]
    /\ UNCHANGED <<mode, prog, order, gctx, last, drv>>

Grains == {"sync", "turn"}

advance(grain, g, tid) ==
    IF grain = "turn" THEN progress_thread(g, tid) ELSE run_thread_to_sync(g, tid)

\* no thread that is not terminated does anything when it is chosen
Nothing(r, g) == r.out = "no_progress" /\ Len(r.g.threads) = Len(g.threads)

NoProgressLeft(grain, g) ==
    \A i \in 0..(Len(g.threads) - 1) :
        g.threads[i + 1].terminated = "none" => Nothing(advance(grain, g, i), g)

\* lines 137-147: what makes a trace final
Terminal(grain, g) == AllCompleted(g) \/ AnyCrashed(g) \/ NoProgressLeft(grain, g)

Started(r) ==
    /\ gctx' = r.g
    /\ last' = Called(InitialContext, 0, r.out)

ScheduleStart(grain) ==
    /\ mc.phase = "exited"
    /\ Started(advance(grain, InitialContext, 0))
    /\ mc' = [mc EXCEPT !.phase = grain]
    /\ UNCHANGED <<mode, prog, order, drv>>

Schedule(tid) ==
    /\ mc.phase \in Grains
    /\ ~gctx.crashed
    /\ ~Terminal(mc.phase, gctx)
    /\ gctx.threads[tid + 1].terminated = "none"
    /\ Returned(advance(mc.phase, Fresh(gctx), tid), tid)
    /\ UNCHANGED <<mode, prog, order, drv, mc>>

NextExplore ==
    \/ Begin
    \/ Explore
    \/ Finish
    \/ \E grain \in Grains : ScheduleStart(grain)
    \/ \E tid \in 0..(Len(gctx.threads) - 1) : Schedule(tid)

SpecExplore == InitExplore /\ [][NextExplore]_vars

\* model_check is a single thread of control: it keeps going.  Its first step
\* and every iteration of its loop change the state, so the first two
\* conjuncts are WF_vars(Begin) and WF_vars(Explore) with the enabling
\* conditions written out.
SpecExploreFair ==
    /\ SpecExplore
    /\ ([]<>(mc.phase # "start") \/ []<><<Begin>>_vars)
    /\ ([]<>(mc.phase # "loop") \/ []<><<Explore>>_vars)
    /\ WF_vars(Finish)

(***************************************************************************)
(* Properties                                                              *)
(***************************************************************************)
IsPrefix(h1, h2) == Len(h1) <= Len(h2) /\ SubSeq(h2, 1, Len(h1)) = h1

Comparable(h1, h2) == IsPrefix(h1, h2) \/ IsPrefix(h2, h1)

Pulls == {k \in 1..Len(gctx.ev) : gctx.ev[k].op = "pull"}

Diverged(dst, src) ==
    \E var \in DOMAIN dst \cap DOMAIN src : ~Comparable(dst[var].history, src[var].history)

\* C1: a pull made by a join or a lock fails exactly when some variable of
\* both views has histories of which neither is a prefix of the other, and
\* the thread that made it is terminated with datarace_exception exactly
\* when it failed; no thread gets that status without a failed pull.
PullFailsIffDiverged ==
    /\ \A k \in Pulls :
          LET e == gctx.ev[k] IN
          /\ ~e.ok <=> Diverged(e.dst, e.src)
          /\ ~e.ok <=> gctx.threads[e.tid + 1].terminated = "datarace_exception"
    /\ last.before = "none" /\ last.out = "datarace_exception" =>
          \E k \in Pulls : gctx.ev[k].tid = last.tid /\ ~gctx.ev[k].ok

\* C1 witness: a join's pull has failed on diverged histories and its thread
\* is terminated with datarace_exception
PullFailedSeen ==
    \E k \in Pulls :
        /\ ~gctx.ev[k].ok
        /\ gctx.ev[k].by = "Join"
        /\ Diverged(gctx.ev[k].dst, gctx.ev[k].src)
        /\ gctx.threads[gctx.ev[k].tid + 1].terminated = "datarace_exception"

\* C2: after a successful pull, every variable of src that dst lacked has
\* src's value and history, every variable for which src's history is
\* strictly longer has src's value and history, and every other variable of
\* src is as it was in dst.
PullAdoptsNewer ==
    \A k \in Pulls :
        LET e == gctx.ev[k] IN
        e.ok =>
            \A var \in DOMAIN e.src :
                IF var \notin DOMAIN e.dst
                   \/ Len(e.src[var].history) > Len(e.dst[var].history)
                THEN /\ var \in DOMAIN e.after
                     /\ e.after[var].val = e.src[var].val
                     /\ e.after[var].history = e.src[var].history
                ELSE e.after[var] = e.dst[var]

\* C2 witness: one successful pull with a variable dst lacked and a variable
\* it fast-forwarded, and a pull in which dst was ahead of src
PullAdoptedSeen ==
    /\ prog = ChildAhead
    /\ \E k \in Pulls :
          LET e == gctx.ev[k] IN
          /\ e.ok
          /\ \E var \in DOMAIN e.src : var \notin DOMAIN e.dst
          /\ \E var \in DOMAIN e.src \cap DOMAIN e.dst :
                /\ Len(e.src[var].history) > Len(e.dst[var].history)
                /\ e.after[var].val # e.dst[var].val

\* C5: every lock has at most one thread that took it and has not released
\* it, that thread is the lock's owner, and every `lock v` that went through
\* found v without an owner.
MutualExclusion ==
    /\ \A v \in DOMAIN gctx.locks :
          LET holders == {t \in 0..(Len(gctx.threads) - 1) : <<v, t>> \in gctx.held} IN
          /\ Cardinality(holders) <= 1
          /\ \A t \in holders : gctx.locks[v].owner = Some(t)
          /\ HasValue(gctx.locks[v].owner) => Value(gctx.locks[v].owner) \in holders
    /\ \A k \in Pulls : gctx.ev[k].by = "Lock" => gctx.ev[k].owner = None

\* C5 witness: a thread was refused a lock that another thread holds
LockRefusedSeen ==
    /\ mode = "free"
    /\ last.out = "no_progress"
    /\ LET thread == gctx.threads[last.tid + 1]
           stmt == prog[thread.block][thread.pc + 1]
       IN  /\ stmt.s = "Lock"
           /\ \E t \in 0..(Len(gctx.threads) - 1) :
                 t # last.tid /\ <<stmt.var, t>> \in gctx.held

Threads(g) == 0..(Len(g.threads) - 1)

Raced(g) == \E t \in Threads(g) : g.threads[t + 1].terminated = "datarace_exception"

\* the values of x that the file's thread ends with in the recorded states
RecordedValues ==
    {mc.final_contexts[k].threads[1].ctx.globals["x"].val :
        k \in {i \in 1..Len(mc.final_contexts) :
                  "x" \in DOMAIN mc.final_contexts[i].threads[1].ctx.globals}}

\* C3: while every write of a global so far was made by a thread holding one
\* common lock, no thread is terminated with datarace_exception; and for two
\* writers of x under lock m the explorer ends with recorded terminal states
\* for both final values of x.
GuardedWritersExplored ==
    /\ gctx.guards # {} => ~Raced(gctx)
    /\ mc.phase = "exited" /\ prog \in {LockOrderedReg, TwoWriters} =>
          {1, 2} \subseteq RecordedValues

IsWrite(stmt, name) == stmt.s = "Assign" /\ stmt.lval = Var(name)

IsPlain(stmt) == stmt.s = "Assign" /\ stmt.expr.e \in {"Const", "Spawn"}

\* the file's block spawns block 2, writes x later and joins the child last;
\* the child writes x; neither block has a lock, an unlock or another join
Racy(p) ==
    /\ Len(p) = 2
    /\ LET parent == p[1]
           child == p[2]
           n == Len(parent)
       IN  /\ n >= 3
           /\ \A k \in 1..(n - 1) : IsPlain(parent[k])
           /\ \A k \in 1..Len(child) : IsPlain(child[k]) /\ child[k].expr.e = "Const"
           /\ \E k \in 1..Len(child) : IsWrite(child[k], "x")
           /\ \E i \in 1..(n - 1) :
                 /\ parent[i].expr = Spawn(2)
                 /\ \A k \in 1..(n - 1) : parent[k].expr.e = "Spawn" => k = i
                 /\ parent[n] = Join(parent[i].lval)
                 /\ \E j \in (i + 1)..(n - 1) : IsWrite(parent[j], "x")

\* C4: in a program whose parent writes x after the spawn and whose child
\* writes x, with no lock and no other join, the parent never completes,
\* every pull of its join fails and terminates it with datarace_exception,
\* and the concrete run ends with the parent so terminated and exit code 1.
UnorderedWritesRace ==
    Racy(prog) =>
        /\ gctx.threads[1].terminated \in {"none", "datarace_exception"}
        /\ \A k \in Pulls :
              gctx.ev[k].by = "Join" /\ gctx.ev[k].tid = 0 =>
                 /\ ~gctx.ev[k].ok
                 /\ gctx.threads[gctx.ev[k].from + 1].terminated = "completed"
                 /\ gctx.threads[1].terminated = "datarace_exception"
        /\ drv.phase \in {"finished", "exited"} =>
              gctx.threads[1].terminated = "datarace_exception"
        /\ drv.phase = "exited" => drv.exit = 1

\* C4 witness: the concrete run of such a program has ended with exit code 1,
\* the child completed and the parent terminated by the race
RacyRunExited ==
    /\ Racy(prog)
    /\ drv.phase = "exited"
    /\ drv.exit = 1
    /\ gctx.threads[1].terminated = "datarace_exception"
    /\ gctx.threads[2].terminated = "completed"

\* C6: the terminal state of every schedule, each step of which runs one
\* thread that is not terminated to its next sync point, is equal to one of
\* the terminal states the explorer recorded.
ExplorerComplete ==
    mc.phase = "sync" /\ ~gctx.crashed /\ Terminal("sync", gctx) =>
        Seen(mc.final_contexts, gctx)

\* the same for the schedules whose steps are the explorer's own turns
ExplorerCompleteForTurns ==
    mc.phase = "turn" /\ ~gctx.crashed /\ Terminal("turn", gctx) =>
        Seen(mc.final_contexts, gctx)

Deadlocked(grain, g) == ~AnyCrashed(g) /\ ~AllCompleted(g) /\ NoProgressLeft(grain, g)

\* C7: when a schedule is in a state without an errored thread, with a thread
\* that is not completed and with no thread that can make progress, the
\* explorer has recorded a deadlocked terminal state and returned 1.
DeadlockReported ==
    mc.phase = "sync" /\ ~gctx.crashed /\ Deadlocked("sync", gctx) =>
        Len(mc.deadlocked_traces) >= 1 /\ mc.exit = 1

\* the same for the schedules whose steps are the explorer's own turns
DeadlockReportedForTurns ==
    mc.phase = "turn" /\ ~gctx.crashed /\ Deadlocked("turn", gctx) =>
        Len(mc.deadlocked_traces) >= 1 /\ mc.exit = 1

\* C8: the explorer returns a non-zero code exactly when a recorded terminal
\* state has a thread terminated with an error or is deadlocked.
ExitCodeIffFailure ==
    mc.phase = "exited" =>
        (mc.exit # 0 <=>
            \E k \in 1..Len(mc.final_contexts) :
                \/ AnyCrashed(mc.final_contexts[k])
                \/ Deadlocked("sync", mc.final_contexts[k]))

\* C8 witness: the explorer has returned 1 with a deadlocked state and no
\* failing state recorded
ExitedOnDeadlockOnly ==
    /\ mc.phase = "exited"
    /\ mc.exit = 1
    /\ Len(mc.failing_traces) = 0
    /\ Len(mc.deadlocked_traces) >= 1

RootComplete == RootTrace \in DOMAIN mc.nodes /\ mc.nodes[RootTrace].complete

\* an iteration appended a node, or completed a node that was not complete
Advanced ==
    \/ Cardinality(DOMAIN mc'.nodes) > Cardinality(DOMAIN mc.nodes)
    \/ \E n \in DOMAIN mc.nodes : ~mc.nodes[n].complete /\ mc'.nodes[n].complete

\* what the next iteration of the loop leaves behind
Iterated == explore(mc, Fresh(gctx))

\* C9: every iteration of the explorer's loop changes the state: it appends
\* a node to the trace tree or completes a node that was not complete; no
\* node is ever removed or reopened; and the root is eventually complete.
ExplorerTerminates ==
    /\ [](mc.phase = "loop" => <<Iterated.g, Iterated.m>> # <<gctx, mc>>)
    /\ [][mc.phase = "loop" =>
            /\ Advanced
            /\ \A n \in DOMAIN mc.nodes :
                  n \in DOMAIN mc'.nodes /\ (mc.nodes[n].complete => mc'.nodes[n].complete)]_vars
    /\ <>RootComplete

\* C9 witness: the explorer has ended after at least two restarts, with a
\* node that has two children
ExploredBranches ==
    /\ mc.phase = "exited"
    /\ Len(mc.final_contexts) >= 2
    /\ \E n \in DOMAIN mc.nodes : Len(mc.nodes[n].children) >= 2

Blocked(g, tid) == run_thread_to_sync(g, tid).out = "no_progress"

\* C10: the concrete driver starts another round only after a round that
\* reported progress, stops after a round that reported completed or no
\* progress, completed means every thread is terminated, no progress means
\* every thread that is not terminated is blocked, and the run always ends.
DriverTerminates ==
    /\ [](mode = "concrete" =>
            /\ drv.phase = "running" =>
                  /\ drv.result \in {"none", "progress"}
                  /\ \/ run_threads_to_sync(Fresh(gctx)).g # gctx
                     \/ is_finished(run_threads_to_sync(Fresh(gctx)).out)
            /\ drv.phase \in {"finished", "exited"} =>
                  /\ drv.result \in {"completed", "no_progress"}
                  /\ drv.result = "completed" =>
                        \A t \in Threads(gctx) : gctx.threads[t + 1].terminated # "none"
                  /\ drv.result = "no_progress" =>
                        \A t \in Threads(gctx) :
                            gctx.threads[t + 1].terminated = "none" => Blocked(gctx, t))
    /\ (mode = "concrete" ~> drv.phase = "exited")

\* C10 witness: the driver has stopped on a round without progress, with a
\* thread that is not terminated and is blocked
StoppedOnDeadlock ==
    /\ drv.phase = "exited"
    /\ drv.result = "no_progress"
    /\ \E t \in Threads(gctx) : gctx.threads[t + 1].terminated = "none" /\ Blocked(gctx, t)

Errors == TerminationStatus \ {"completed"}

\* C11: when the concrete interpreter has returned, its exit code is 0 or 1;
\* it is 0 exactly when every thread is terminated with status completed,
\* and it is 1 when some thread is terminated with datarace, assertion
\* failure, uninitialised read or unlock exception or is not terminated.
ExitCodeIffAllCompleted ==
    drv.phase = "exited" =>
        /\ drv.exit \in {0, 1}
        /\ drv.exit = 0 <=>
              \A t \in Threads(gctx) : gctx.threads[t + 1].terminated = "completed"
        /\ (\E t \in Threads(gctx) :
                gctx.threads[t + 1].terminated \in Errors \cup {"none"}) => drv.exit = 1

\* C11 witness: the interpreter has returned 1 with no thread terminated by
\* an error and a thread that is left without a termination status
ExitedWithStuckThread ==
    /\ drv.phase = "exited"
    /\ drv.exit = 1
    /\ \A t \in Threads(gctx) : gctx.threads[t + 1].terminated \notin Errors
    /\ \E t \in Threads(gctx) : gctx.threads[t + 1].terminated = "none"

\* what the pull recorded as event e gives when the variables of its source
\* are iterated in order o
Repulled(e, o) == pull(e.dst, e.src, o)

\* C12: two runs of one program under one schedule go through the same
\* states whatever order the variables are iterated in: every pull of a run
\* gives, for every iteration order, the verdict and the view that it gave
\* in this run (commit treats each variable by itself, and no other step
\* iterates the variables).
RunsAgree ==
    \A k \in Pulls : \A o \in Orders :
        /\ Repulled(gctx.ev[k], o).ok = gctx.ev[k].ok
        /\ Repulled(gctx.ev[k], o).dst = gctx.ev[k].after

\* the part of it that holds: the verdict of a pull, and the view after a
\* pull that succeeded, are the same for every iteration order
PullsAgree ==
    \A k \in Pulls : \A o \in Orders :
        /\ Repulled(gctx.ev[k], o).ok = gctx.ev[k].ok
        /\ gctx.ev[k].ok => Repulled(gctx.ev[k], o).dst = gctx.ev[k].after

Writes == 1..Len(gctx.writes)

\* the identifiers that are pending in some thread's view
PendingIds ==
    {Value(gctx.threads[t + 1].ctx.globals[var].commit) :
        <<t, var>> \in {<<u, v>> \in Threads(gctx) \X {"x", "y", "t"} :
                           /\ v \in DOMAIN gctx.threads[u + 1].ctx.globals
                           /\ HasValue(gctx.threads[u + 1].ctx.globals[v].commit)}}

\* C13: the writes of globals executed so far took the identifiers 0, 1, 2,
\* ... in the order they were executed, so identifiers are strictly
\* increasing in that order and no two writes of any threads share one; the
\* counter is ahead of all of them, and a write that is pending in a view
\* carries the identifier it took.
FreshCommitIds ==
    /\ \A i \in Writes : gctx.writes[i].id = i - 1
    /\ \A i \in Writes : \A j \in Writes : i < j => gctx.writes[i].id < gctx.writes[j].id
    /\ gctx.uuid = Len(gctx.writes)
    /\ \A id \in PendingIds : \E i \in Writes : gctx.writes[i].id = id

\* C13 witness: two threads have each written a global, and three writes
\* have been executed
WritesByTwoThreads ==
    /\ Len(gctx.writes) >= 3
    /\ \E i \in Writes : \E j \in Writes : gctx.writes[i].tid # gctx.writes[j].tid

\* the views of the process: one for each thread and one for each lock
Views ==
    {gctx.threads[t + 1].ctx.globals : t \in Threads(gctx)}
        \cup {gctx.locks[v].globals : v \in DOMAIN gctx.locks}

\* an executed write of var with identifier id
Written(var, id) ==
    \E i \in Writes : gctx.writes[i].var = var /\ gctx.writes[i].id = id

WellFormed(var, global) ==
    /\ \A i \in 1..Len(global.history) : \A j \in 1..Len(global.history) :
          i # j => global.history[i] # global.history[j]
    /\ \A i \in 1..Len(global.history) : Written(var, global.history[i])
    /\ HasValue(global.commit) =>
          /\ \A i \in 1..Len(global.history) : global.history[i] # Value(global.commit)
          /\ \E i \in Writes :
                /\ gctx.writes[i].var = var
                /\ gctx.writes[i].id = Value(global.commit)
                /\ gctx.writes[i].val = global.val

\* C14: for every global of every thread's view and every lock's view, the
\* history has no identifier twice, every identifier in it was taken by an
\* executed write of that global, and a pending commit is not in the history
\* and is the identifier of the write that wrote the view's value.
ViewsWellFormed ==
    \A view \in Views : \A var \in DOMAIN view : WellFormed(var, view[var])

\* C14 witness: a thread's view has a pending write of x on top of a history
\* it pulled from a lock, and the lock's view has that history
PendingOverPulled ==
    \E t \in Threads(gctx) : \E v \in DOMAIN gctx.locks :
        LET view == gctx.threads[t + 1].ctx.globals IN
        /\ "x" \in DOMAIN view /\ "x" \in DOMAIN gctx.locks[v].globals
        /\ HasValue(view["x"].commit)
        /\ Len(view["x"].history) >= 1
        /\ gctx.locks[v].globals["x"].history = view["x"].history
        /\ gctx.writes[view["x"].history[1] + 1].tid # t

\* the view of one of the threads a and b has reached the other through
\* unlocks and successful pulls of lock and join
Synchronised(a, b) == <<a, b>> \in gctx.met \/ <<b, a>> \in gctx.met

Shared(a, b) ==
    DOMAIN gctx.threads[a + 1].ctx.globals \cap DOMAIN gctx.threads[b + 1].ctx.globals

History(t, var) == gctx.threads[t + 1].ctx.globals[var].history

\* C15: for every two threads whose views have synchronised through join,
\* lock and unlock, and every variable present in both views, one history is
\* a prefix of the other.
SynchronisedComparable ==
    \A a \in Threads(gctx) : \A b \in Threads(gctx) :
        Synchronised(a, b) =>
            \A var \in Shared(a, b) : Comparable(History(a, var), History(b, var))

\* C15 as it holds: after a pull of a join or a lock that succeeded, for
\* every variable present in the puller's view and in the view pulled from,
\* the history pulled from is a prefix of the puller's.
PulledComparable ==
    \A k \in Pulls :
        LET e == gctx.ev[k] IN
        e.ok => \A var \in DOMAIN e.after \cap DOMAIN e.src :
                    IsPrefix(e.src[var].history, e.after[var].history)

\* C15 witness: a pull has succeeded on a variable of both views whose
\* history in the view pulled from was the longer one
PulledLongerSeen ==
    \E k \in Pulls :
        LET e == gctx.ev[k] IN
        /\ e.ok
        /\ "x" \in DOMAIN e.dst \cap DOMAIN e.src
        /\ Len(e.dst["x"].history) >= 1
        /\ Len(e.src["x"].history) > Len(e.dst["x"].history)
        /\ e.after["x"].history = e.src["x"].history

\* two threads without an error whose views have synchronised and have
\* histories of x of which neither is a prefix of the other
DivergedUnnoticed ==
    /\ ~AnyCrashed(gctx)
    /\ \E a \in Threads(gctx) : \E b \in Threads(gctx) :
          /\ Synchronised(a, b)
          /\ "x" \in Shared(a, b)
          /\ ~Comparable(History(a, "x"), History(b, "x"))

Block(t) == prog[gctx.threads[t + 1].block]

\* the spawn expression that statement stmt evaluates, if it has one
SpawnOf(stmt) ==
    IF stmt.s \in {"Assign", "Join"} /\ stmt.expr.e = "Spawn" THEN Some(stmt.expr) ELSE None

\* the spawns evaluated so far, as (thread, statement index): the statements
\* a thread has behind it, and a join it waits in with its target cached
Spawns ==
    {p \in UNION {{t} \X (1..Len(Block(t))) : t \in Threads(gctx)} :
        /\ HasValue(SpawnOf(Block(p[1])[p[2]]))
        /\ \/ p[2] <= gctx.threads[p[1] + 1].pc
           \/ /\ p[2] = gctx.threads[p[1] + 1].pc + 1
              /\ <<gctx.threads[p[1] + 1].block, p[2] - 1>> \in DOMAIN gctx.cache}

\* the value that statement k of thread t stored for its spawn
Handle(t, k) ==
    LET stmt == Block(t)[k]
        ctx == gctx.threads[t + 1].ctx
    IN  IF stmt.s = "Join" THEN gctx.cache[<<gctx.threads[t + 1].block, k - 1>>]
        ELSE IF stmt.lval.e = "Reg" THEN ctx.locals[stmt.lval.name]
        ELSE ctx.globals[stmt.lval.name].val

\* C16: the file's thread is thread 0; there is one thread more for every
\* spawn evaluated, and the value a spawn returned is the index of a thread
\* that runs the spawned block, below the number of threads; no step removes
\* a thread or changes which block the thread at an index runs, and a thread
\* that a step adds starts behind the threads that were there.
ThreadsOnlyGrow ==
    /\ [](/\ gctx.threads[1].block = 1
          /\ Len(gctx.threads) = 1 + Cardinality(Spawns)
          /\ \A p \in Spawns :
                /\ Handle(p[1], p[2]) \in 1..(Len(gctx.threads) - 1)
                /\ Handle(p[1], p[2]) > p[1]
                /\ gctx.threads[Handle(p[1], p[2]) + 1].block =
                       Value(SpawnOf(Block(p[1])[p[2]])).block)
    /\ [][/\ Len(gctx'.threads) >= Len(gctx.threads)
          /\ \A i \in 1..Len(gctx.threads) :
                gctx'.threads[i].block = gctx.threads[i].block]_vars

\* C16 witness: a second thread was appended by a spawn whose value, 1, is
\* in the spawning thread's register, and both threads have run since
SpawnedSeen ==
    /\ Len(gctx.threads) = 2
    /\ <<0, 1>> \in Spawns
    /\ Handle(0, 1) = 1
    /\ gctx.threads[1].pc >= 2
    /\ gctx.threads[2].pc >= 1

\* the statements that thread t has handed to run_statement in this call
Executed(t) == {k \in 1..Len(gctx.ev) : gctx.ev[k].op = "stmt" /\ gctx.ev[k].tid = t}

SyncKinds == {"Join", "Lock", "Unlock"}

\* C17: in one call of run_thread_to_sync a thread executes a join, lock or
\* unlock only as the first statement of the call, hence at most one; and
\* when the call returns progress and the thread is not terminated, its pc
\* is at a join, lock or unlock that the call has not executed.
SyncPointDiscipline ==
    /\ \A t \in Threads(gctx) : \A k \in Executed(t) :
          gctx.ev[k].s \in SyncKinds => \A j \in Executed(t) : k <= j
    /\ \A t \in Threads(gctx) :
          Cardinality({k \in Executed(t) : gctx.ev[k].s \in SyncKinds}) <= 1
    /\ mode = "free" /\ last.out = "progress"
          /\ gctx.threads[last.tid + 1].terminated = "none" =>
          LET thread == gctx.threads[last.tid + 1] IN
          /\ thread.pc < Len(prog[thread.block])
          /\ prog[thread.block][thread.pc + 1].s \in SyncKinds
          /\ \A k \in Executed(last.tid) : gctx.ev[k].pc # thread.pc

\* C17 witness: a call has executed a lock as its first statement and a
\* write after it, and has returned progress in front of the unlock
StoppedAtSyncSeen ==
    /\ mode = "free"
    /\ last.out = "progress"
    /\ gctx.threads[last.tid + 1].terminated = "none"
    /\ prog[gctx.threads[last.tid + 1].block][gctx.threads[last.tid + 1].pc + 1].s = "Unlock"
    /\ \E k \in Executed(last.tid) : \E j \in Executed(last.tid) :
          k < j /\ gctx.ev[k].s = "Lock" /\ gctx.ev[j].s = "Assign"

\* thread t is not terminated and its next statement is a join
AtJoin(g, t) ==
    /\ g.threads[t + 1].terminated = "none"
    /\ g.threads[t + 1].pc < Len(prog[g.threads[t + 1].block])
    /\ prog[g.threads[t + 1].block][g.threads[t + 1].pc + 1].s = "Join"

\* the thread id that the join thread t is at evaluates to: the cached value,
\* or the value of its register or global; -1 when that is not known yet
Joinee(g, t) ==
    LET thread == g.threads[t + 1]
        expr == prog[thread.block][thread.pc + 1].expr
    IN  IF <<thread.block, thread.pc>> \in DOMAIN g.cache
        THEN g.cache[<<thread.block, thread.pc>>]
        ELSE IF expr.e = "Reg" /\ expr.name \in DOMAIN thread.ctx.locals
        THEN thread.ctx.locals[expr.name]
        ELSE IF expr.e = "Var" /\ expr.name \in DOMAIN thread.ctx.globals
        THEN thread.ctx.globals[expr.name].val
        ELSE -1

\* thread t is at a join of a thread whose status is one of `statuses`
Joining(g, t, statuses) ==
    /\ AtJoin(g, t)
    /\ Joinee(g, t) \in Threads(g)
    /\ g.threads[Joinee(g, t) + 1].terminated \in statuses

\* C18: every pull of a join is from a thread with status completed; a call
\* of a thread at a join whose target is not terminated or is terminated
\* with an error returns no progress, makes no pull and leaves every view,
\* pending commits included, as it was; while the target has an error no
\* step changes the joiner; and the concrete run then ends with the joiner
\* not terminated and exit code 1.
JoinWaitsForCompleted ==
    /\ [](/\ \A k \in Pulls :
                gctx.ev[k].by = "Join" =>
                    gctx.threads[gctx.ev[k].from + 1].terminated = "completed"
          /\ drv.phase = "exited" =>
                \A t \in Threads(gctx) : Joining(gctx, t, Errors) => drv.exit = 1)
    /\ [][/\ mode = "free" /\ Joining(gctx, last'.tid, Errors \cup {"none"}) =>
                /\ last'.out = "no_progress"
                /\ gctx'.threads = gctx.threads
                /\ gctx'.locks = gctx.locks
                /\ \A k \in 1..Len(gctx'.ev) : gctx'.ev[k].op # "pull"
          /\ \A t \in Threads(gctx) :
                Joining(gctx, t, Errors) => gctx'.threads[t + 1] = gctx.threads[t + 1]]_vars

\* C18 witness: the concrete run has ended with exit code 1 and a thread that
\* is left at the join of a thread terminated with an error
JoinerLeftStuck ==
    /\ drv.phase = "exited"
    /\ drv.exit = 1
    /\ \E t \in Threads(gctx) : Joining(gctx, t, Errors)

\* a call of a thread at the join of a thread that is not terminated, or is
\* terminated with an error, has returned
JoinRefusedSeen ==
    /\ mode = "free"
    /\ last.out = "no_progress"
    /\ last.tid \in Threads(gctx)
    /\ \E status \in {{"none"}, Errors} : Joining(gctx, last.tid, status)

\* thread t is at a join whose cached target is an id that no thread has
JoiningMissing(g, t) ==
    /\ AtJoin(g, t)
    /\ <<g.threads[t + 1].block, g.threads[t + 1].pc>> \in DOMAIN g.cache
    /\ Joinee(g, t) >= Len(g.threads)

\* C19: a thread whose join evaluates to an id that no thread has is not
\* progressed and nothing else happens: the process does not read beyond its
\* threads, no step changes a thread, and the concrete run ends with exit
\* code 1 and that thread not terminated.
MissingJoineeIsStuck ==
    \A t \in Threads(gctx) :
        JoiningMissing(gctx, t) =>
            /\ ~gctx.crashed
            /\ drv.phase # "crashed"
            /\ drv.phase = "exited" => drv.exit = 1

\* what holds of it: when the read beyond the threads finds something that
\* is not a completed thread, the thread is left stuck and the run exits 1
MissingJoineeIsStuckIfRead ==
    \A t \in Threads(gctx) :
        JoiningMissing(gctx, t) /\ gctx.oob = "stuck" =>
            /\ ~gctx.crashed
            /\ drv.phase = "exited" => drv.exit = 1

\* the threads that run block b
Running(b) == {t \in Threads(gctx) : gctx.threads[t + 1].block = b}

\* C20: the argument of a join is evaluated once in a run: the value cached
\* for a join never changes, a call that re-enters a join whose value is
\* cached and is refused adds no thread, every pull of a join is from the
\* thread cached for a join of the pulling thread, and no block, the block
\* of a spawn in a join argument included, is run by two threads.
JoinArgumentOnce ==
    /\ [](/\ \A b \in 1..Len(prog) : Cardinality(Running(b)) <= 1
          /\ \A k \in Pulls :
                gctx.ev[k].by = "Join" =>
                    \E key \in DOMAIN gctx.cache :
                        /\ key[1] = gctx.threads[gctx.ev[k].tid + 1].block
                        /\ key[2] <= gctx.threads[gctx.ev[k].tid + 1].pc
                        /\ prog[key[1]][key[2] + 1].s = "Join"
                        /\ gctx.cache[key] = gctx.ev[k].from)
    /\ [][/\ \A key \in DOMAIN gctx.cache :
                key \in DOMAIN gctx'.cache /\ gctx'.cache[key] = gctx.cache[key]
          /\ mode = "free" /\ last'.out = "no_progress" /\ AtJoin(gctx, last'.tid)
                /\ <<gctx.threads[last'.tid + 1].block, gctx.threads[last'.tid + 1].pc>>
                       \in DOMAIN gctx.cache =>
                Len(gctx'.threads) = Len(gctx.threads)]_vars

\* C20 witness: the join of a spawn has gone through, which takes a call
\* later than the one that evaluated the spawn: there is the one thread
\* that it spawned, cached and joined
JoinedSpawnOnce ==
    /\ prog = JoinSpawn
    /\ gctx.threads[1].pc >= 1
    /\ Len(gctx.threads) = 2
    /\ gctx.cache[<<1, 0>>] = 1
    /\ gctx.threads[1].ctx.globals["x"].val = 1

\* thread t is not terminated and its next statement is of kind s
At(g, t, s) ==
    /\ t \in Threads(g)
    /\ g.threads[t + 1].terminated = "none"
    /\ g.threads[t + 1].pc < Len(prog[g.threads[t + 1].block])
    /\ prog[g.threads[t + 1].block][g.threads[t + 1].pc + 1].s = s

NextStmt(g, t) == prog[g.threads[t + 1].block][g.threads[t + 1].pc + 1]

\* gctx.locks[v], which is a lock without owner and with an empty view
\* when v has not been used
LockOf(g, v) == IF v \in DOMAIN g.locks THEN g.locks[v] ELSE NewLock

\* C21: a call of a thread whose next statement is `unlock v`, where v has no
\* owner or another owner, returns unlock_exception and terminates the
\* thread with it, and v's owner and stored view are as they were.
UnlockByNonOwnerFails ==
    [][mode = "free" /\ At(gctx, last'.tid, "Unlock")
          /\ LockOf(gctx, NextStmt(gctx, last'.tid).var).owner # Some(last'.tid) =>
          /\ last'.out = "unlock_exception"
          /\ gctx'.threads[last'.tid + 1].terminated = "unlock_exception"
          /\ gctx'.threads[last'.tid + 1].pc = gctx.threads[last'.tid + 1].pc
          /\ LockOf(gctx', NextStmt(gctx, last'.tid).var) =
                 LockOf(gctx, NextStmt(gctx, last'.tid).var)]_vars

\* C21 witness: a thread has been terminated with unlock_exception by the
\* unlock of a lock that another thread owns, and still owns
UnlockRefusedSeen ==
    /\ mode = "free"
    /\ last.out = "unlock_exception"
    /\ last.before = "none"
    /\ LET thread == gctx.threads[last.tid + 1]
           stmt == prog[thread.block][thread.pc + 1]
       IN  /\ stmt.s = "Unlock"
           /\ HasValue(gctx.locks[stmt.var].owner)
           /\ Value(gctx.locks[stmt.var].owner) # last.tid

Releases == {k \in 1..Len(gctx.ev) : gctx.ev[k].op = "release"}

\* a view with every pending commit appended to its history and cleared
Committed(view) ==
    [var \in DOMAIN view |->
        [val |-> view[var].val,
         commit |-> None,
         history |-> IF HasValue(view[var].commit)
                     THEN Append(view[var].history, Value(view[var].commit))
                     ELSE view[var].history]]

\* C22: after `unlock v` by its owner the view stored in v is the unlocker's
\* view with every pending commit committed, and v has no owner until it is
\* locked; the stored view of a lock changes by nothing but such an unlock;
\* and a `lock v` whose pull succeeds pulls from that stored view and leaves
\* the locker, for every variable of it, with a history that has the stored
\* history as a prefix.
UnlockPublishes ==
    /\ [](/\ \A k \in Releases :
                /\ gctx.locks[gctx.ev[k].from].globals = Committed(gctx.ev[k].view)
                /\ mode = "free" => gctx.locks[gctx.ev[k].from].owner = None
          /\ \A k \in Pulls :
                LET e == gctx.ev[k] IN
                e.by = "Lock" =>
                    /\ e.src = gctx.locks[e.from].globals
                    /\ e.ok => \A var \in DOMAIN e.src :
                                  /\ var \in DOMAIN e.after
                                  /\ IsPrefix(e.src[var].history, e.after[var].history))
    /\ [][\A v \in DOMAIN gctx'.locks :
             LockOf(gctx', v).globals # LockOf(gctx, v).globals =>
                 \E k \in 1..Len(gctx'.ev) :
                     gctx'.ev[k].op = "release" /\ gctx'.ev[k].from = v]_vars

\* C22 witness: a thread has locked a lock and pulled a write of x that
\* another thread published with its unlock
PublishedPulledSeen ==
    \E k \in Pulls :
        LET e == gctx.ev[k] IN
        /\ e.by = "Lock"
        /\ e.ok
        /\ "x" \in DOMAIN e.src
        /\ "x" \notin DOMAIN e.dst
        /\ e.after["x"] = e.src["x"]
        /\ e.publishers # {}
        /\ e.tid \notin e.publishers

(***************************************************************************)
(* commit and pull by themselves: applied once to views drawn from the     *)
(* views that threads and locks can hold.  A view knows x, y, both or      *)
(* neither; every write has its own commit id, which settles the value     *)
(* written; a history is the ids of the writes a view has seen, oldest     *)
(* first; a pending id is newer than the history it will be appended to.   *)
(***************************************************************************)
MaxIds == 2

IdsOf(var) == IF var = "x" THEN 0..(MaxIds - 1) ELSE MaxIds..(2 * MaxIds - 1)

ValueWritten(id) == id + 1

Histories(ids) ==
    {h \in UNION {[1..n -> ids] : n \in 0..MaxIds} :
        \A k \in 1..(Len(h) - 1) : h[k] < h[k + 1]}

Pendings(ids, h) ==
    {None} \cup {Some(id) : id \in {i \in ids : \A k \in 1..Len(h) : h[k] < i}}

Latest(c, h) == IF HasValue(c) THEN Value(c) ELSE h[Len(h)]

Versions(var) ==
    {Global(ValueWritten(Latest(c[2], c[1])), c[2], c[1]) :
        c \in {d \in Histories(IdsOf(var)) \X ({None} \cup {Some(id) : id \in IdsOf(var)}) :
                  /\ d[2] \in Pendings(IdsOf(var), d[1])
                  /\ (d[1] = <<>> => HasValue(d[2]))}}

Unknown == Global(0, None, <<>>)

ViewOf(gx, gy) ==
    [var \in {v \in {"x", "y"} : IF v = "x" THEN gx # Unknown ELSE gy # Unknown} |->
        IF var = "x" THEN gx ELSE gy]

SomeViews ==
    {ViewOf(gx, gy) : gx \in Versions("x") \cup {Unknown},
                      gy \in Versions("y") \cup {Unknown}}

Settled(view) == \A var \in DOMAIN view : ~HasValue(view[var].commit)

InitViews ==
    /\ mode = "views"
    /\ prog = <<>>
    /\ order \in Orders
    /\ gctx \in [dst : SomeViews, src : SomeViews]
    /\ last = [op |-> "none"]
    /\ drv = Idle
    /\ mc = NoExplorer

Applied(result) ==
    /\ mode = "views"
    /\ last.op = "none"
    /\ last' = result
    /\ UNCHANGED <<mode, prog, order, gctx, drv, mc>>

\* commit(dst), and commit of what that gave
Commit ==
    Applied([op |-> "commit", once |-> commit(gctx.dst),
             twice |-> commit(commit(gctx.dst))])

\* pull(dst, src) with the variables of src iterated in the order o; the
\* callers of pull commit both views first
Pull(o) ==
    /\ Settled(gctx.dst)
    /\ Settled(gctx.src)
    /\ Applied([op |-> "pull", ord |-> o, got |-> pull(gctx.dst, gctx.src, o)])

\* pull(dst, dst)
PullSelf ==
    Applied([op |-> "pull_self", got |-> pull(gctx.dst, gctx.dst, order)])

NextViews ==
    \/ Commit
    \/ \E o \in Orders : Pull(o)
    \/ PullSelf

SpecViews == InitViews /\ [][NextViews]_vars

\* C23: commit applied twice gives the view that commit applied once gives,
\* commit leaves a view without a pending commit as it is, and commit gives
\* a view of the same variables in which every variable has the value it had.
CommitIdempotent ==
    last.op = "commit" =>
        /\ last.twice = last.once
        /\ Settled(gctx.dst) => last.once = gctx.dst
        /\ DOMAIN last.once = DOMAIN gctx.dst
        /\ \A var \in DOMAIN gctx.dst : last.once[var].val = gctx.dst[var].val

\* commit has been applied to a view with a pending commit of x and of y
CommittedPendingSeen ==
    /\ last.op = "commit"
    /\ DOMAIN gctx.dst = {"x", "y"}
    /\ \A var \in DOMAIN gctx.dst : HasValue(gctx.dst[var].commit)
    /\ Len(gctx.dst["x"].history) > 0
    /\ last.once # gctx.dst

\* C24: pull(a, a) reports no conflict and leaves a as it was.
PullSelfNoOp ==
    last.op = "pull_self" =>
        /\ last.got.ok
        /\ last.got.dst = gctx.dst
        /\ last.got.src = gctx.dst

\* a view that knows x and y, with a history of several commits and a
\* pending commit, has been pulled into itself
PulledSelfSeen ==
    /\ last.op = "pull_self"
    /\ DOMAIN gctx.dst = {"x", "y"}
    /\ Len(gctx.dst["x"].history) > 1
    /\ HasValue(gctx.dst["y"].commit)

\* C25: pull(dst, src) gives the same verdict and the same dst for every
\* order in which the variables of src are iterated, also when the merge
\* stops at a conflict.
PullOrderIrrelevant ==
    last.op = "pull" =>
        \A o \in Orders :
            /\ pull(gctx.dst, gctx.src, o).ok = last.got.ok
            /\ pull(gctx.dst, gctx.src, o).dst = last.got.dst

\* C26: pull(dst, src) leaves src as it was, and every variable of dst that
\* src does not have is in dst afterwards as it was before.
PullFrame ==
    last.op = "pull" =>
        /\ last.got.src = gctx.src
        /\ \A var \in DOMAIN gctx.dst \ DOMAIN gctx.src :
              /\ var \in DOMAIN last.got.dst
              /\ last.got.dst[var] = gctx.dst[var]

\* a pull without conflict has changed a dst that has a variable that src
\* does not have
PulledBesideSeen ==
    /\ last.op = "pull"
    /\ last.got.ok
    /\ DOMAIN gctx.dst = {"x"}
    /\ DOMAIN gctx.src = {"y"}
    /\ last.got.dst # gctx.dst

\* the values of the variables of a view
Values(view) == [var \in DOMAIN view |-> view[var].val]

\* the statements of the last call that are the `unlock v` of a `lock v;
\* unlock v`, where the lock's stored view held the writes of no other thread
Relocked ==
    {k \in 1..Len(gctx.ev) :
        /\ gctx.ev[k].op = "stmt"
        /\ gctx.ev[k].s = "Unlock"
        /\ gctx.ev[k].pc >= 1
        /\ Block(gctx.ev[k].tid)[gctx.ev[k].pc] = Lock(Block(gctx.ev[k].tid)[gctx.ev[k].pc + 1].var)
        /\ gctx.entered[Block(gctx.ev[k].tid)[gctx.ev[k].pc + 1].var].alone}

\* C27: when a thread has executed `lock v; unlock v` on a lock that no other
\* thread has used, the unlock has succeeded, and the thread's global values
\* and registers after it are those it had before the lock.
LockUnlockKeepsValues ==
    \A k \in Relocked :
        LET t == gctx.ev[k].tid
            v == Block(t)[gctx.ev[k].pc + 1].var
        IN  /\ gctx.entered[v].tid = t
            /\ k < Len(gctx.ev)
            /\ gctx.ev[k + 1].op = "release"
            /\ gctx.ev[k + 1].tid = t
            /\ Values(gctx.ev[k + 1].ctx.globals) = Values(gctx.entered[v].ctx.globals)
            /\ gctx.ev[k + 1].ctx.locals = gctx.entered[v].ctx.locals

\* a thread that had written x again since it last unlocked v has executed
\* `lock v; unlock v`
RelockedSeen ==
    \E k \in Relocked :
        LET v == Block(gctx.ev[k].tid)[gctx.ev[k].pc + 1].var
        IN  /\ "x" \in DOMAIN gctx.entered[v].stored
            /\ "x" \in DOMAIN gctx.entered[v].ctx.globals
            /\ HasValue(gctx.entered[v].ctx.globals["x"].commit)
            /\ k < Len(gctx.ev)
            /\ gctx.ev[k + 1].op = "release"

\* thread t is handed a statement in the last call of the driver
Scheduled(g, t) == \E k \in 1..Len(g.ev) : g.ev[k].op = "stmt" /\ g.ev[k].tid = t

Live(g, t) == t \in Threads(g) /\ g.threads[t + 1].terminated = "none"

Erred(g, t) == t \in Threads(g) /\ g.threads[t + 1].terminated \in Errors

\* thread t waits: for a thread that has not completed, or for a lock that
\* has an owner
Waiting(g, t) ==
    \/ Joining(g, t, Errors \cup {"none"})
    \/ At(g, t, "Lock") /\ is_owned(LockOf(g, NextStmt(g, t).var))

\* C28: a call of a thread sets the termination field of no other thread; in
\* a round of the concrete scheduler every thread that is not terminated is
\* handed a statement or completes, whatever has become of the threads
\* before it, a thread gets an error only from a statement of its own, and
\* after a round in which a thread got an error while another is left
\* unterminated the scheduler goes on; and when the scheduler has stopped,
\* every thread that is not terminated is blocked.
ErrorsConfined ==
    /\ [](mode = "concrete" /\ drv.phase \in {"finished", "exited"} =>
             \A u \in Threads(gctx) : Live(gctx, u) => Waiting(gctx, u))
    /\ [][/\ mode = "free" =>
                \A u \in Threads(gctx) :
                    u # last'.tid =>
                        gctx'.threads[u + 1].terminated = gctx.threads[u + 1].terminated
          /\ mode = "concrete" /\ drv.phase = "running" =>
                /\ \A u \in Threads(gctx) :
                      /\ Live(gctx, u) =>
                            \/ Scheduled(gctx', u)
                            \/ gctx'.threads[u + 1].terminated = "completed"
                      /\ Live(gctx, u) /\ Erred(gctx', u) => Scheduled(gctx', u)
                      /\ ~Live(gctx, u) =>
                            gctx'.threads[u + 1].terminated = gctx.threads[u + 1].terminated
                /\ (/\ \E u \in Threads(gctx) : Live(gctx, u) /\ Erred(gctx', u)
                    /\ \E w \in Threads(gctx') : Live(gctx', w)) =>
                      drv'.phase \in {"running", "crashed"}]_vars

\* in a round after the one in which another thread got an error, a thread
\* has run and completed
CompletedAfterErrorSeen ==
    /\ mode = "concrete"
    /\ \E t \in Threads(gctx), u \in Threads(gctx) :
          /\ Erred(gctx, t)
          /\ ~Scheduled(gctx, t)
          /\ gctx.threads[u + 1].terminated = "completed"
          /\ Scheduled(gctx, u)

Spawned == {k \in 1..Len(gctx.ev) : gctx.ev[k].op = "spawn"}

\* the commit ids that thread t wrote to var in the step that is taken
WrittenNow(t, var) ==
    {gctx'.writes[i].id :
        i \in {j \in (Len(gctx.writes) + 1)..Len(gctx'.writes) :
                  gctx'.writes[j].tid = t /\ gctx'.writes[j].var = var}}

\* history h is history old with commits out of ids after it
Extended(h, old, ids) ==
    /\ Len(h) >= Len(old)
    /\ SubSeq(h, 1, Len(old)) = old
    /\ \A i \in (Len(old) + 1)..Len(h) : h[i] \in ids

\* C29: a spawn leaves its caller with its view committed, and the thread it
\* creates starts at the first statement of its block with no register, no
\* pending commit, and the caller's committed view.  A call of a thread
\* changes no register of another thread and nothing of another thread's
\* view but the commit of its pending writes when it is joined; and a call
\* without a pull of a join or a lock brings into the thread's own view
\* only the writes that the call itself makes.
SpawnCopiesAndIsolates ==
    /\ [](mode = "free" =>
             \A k \in Spawned :
                 /\ gctx.ev[k].mine = Committed(gctx.ev[k].view)
                 /\ gctx.ev[k].child \in Threads(gctx)
                 /\ gctx.threads[gctx.ev[k].child + 1] =
                        [ctx |-> [locals |-> EmptyMap,
                                  globals |-> Committed(gctx.ev[k].view)],
                         block |-> gctx.ev[k].block, pc |-> 0, terminated |-> "none"]
                 /\ Settled(gctx.threads[gctx.ev[k].child + 1].ctx.globals))
    /\ [][mode = "free" =>
             /\ \A u \in Threads(gctx) :
                   u # last'.tid =>
                       /\ gctx'.threads[u + 1].ctx.locals = gctx.threads[u + 1].ctx.locals
                       /\ Committed(gctx'.threads[u + 1].ctx.globals) =
                              Committed(gctx.threads[u + 1].ctx.globals)
                       /\ (\A k \in 1..Len(gctx'.ev) :
                              ~(gctx'.ev[k].op = "pull" /\ gctx'.ev[k].by = "Join"
                                    /\ gctx'.ev[k].from = u)) =>
                              gctx'.threads[u + 1].ctx.globals = gctx.threads[u + 1].ctx.globals
             /\ (\A k \in 1..Len(gctx'.ev) : gctx'.ev[k].op # "pull") =>
                   \A var \in DOMAIN Ctx(gctx', last'.tid).globals :
                       Extended(Committed(Ctx(gctx', last'.tid).globals)[var].history,
                                IF var \in DOMAIN Ctx(gctx, last'.tid).globals
                                THEN Committed(Ctx(gctx, last'.tid).globals)[var].history
                                ELSE <<>>,
                                WrittenNow(last'.tid, var))]_vars

\* a thread with a pending write of x has spawned a thread and written x
\* again: the new thread has the first write committed and not the second
SpawnedThenWroteSeen ==
    /\ mode = "free"
    /\ \E k \in Spawned :
          /\ "x" \in DOMAIN gctx.ev[k].view
          /\ HasValue(gctx.ev[k].view["x"].commit)
          /\ HasValue(Ctx(gctx, gctx.ev[k].tid).globals["x"].commit)
          /\ Ctx(gctx, gctx.ev[k].child).globals["x"].val #
                 Ctx(gctx, gctx.ev[k].tid).globals["x"].val

(***************************************************************************)
(* Two runs of one program side by side, each under its own schedule, to   *)
(* compare the states they end in with GlobalContext::operator==, as       *)
(* model_check compares the state a run ends in with those of earlier      *)
(* runs.  The second run's state is mc.other.                              *)
(***************************************************************************)
\* $a = spawn { $c = spawn { nop; }; }; lock m; unlock m; $b = spawn { nop; };
SpawnRace ==
    << <<Assign(Reg("$a"), Spawn(2)), Lock("m"), Unlock("m"), Assign(Reg("$b"), Spawn(3))>>,
       <<Assign(Reg("$c"), Spawn(4))>>,
       <<Nop>>,
       <<Nop>> >>

\* the same, with a lock that is held at the end:
\* $a = spawn { $c = spawn { lock a; }; }; lock m; unlock m; $b = spawn { nop; };
SpawnRaceHeld ==
    << <<Assign(Reg("$a"), Spawn(2)), Lock("m"), Unlock("m"), Assign(Reg("$b"), Spawn(3))>>,
       <<Assign(Reg("$c"), Spawn(4))>>,
       <<Nop>>,
       <<Lock("a")>> >>

PairPrograms == {SpawnRace, SpawnRaceHeld, TwoWriters}

InitPair ==
    /\ mode = "pair"
    /\ prog \in PairPrograms
    /\ order \in Orders
    /\ gctx = InitialContext
    /\ last = NoCall
    /\ drv = Idle
    /\ mc = [phase |-> "pair", other |-> InitialContext]

\* run_thread_to_sync in the first run
StepFirst(tid) ==
    /\ mode = "pair"
    /\ gctx.threads[tid + 1].terminated = "none"
    /\ gctx' = run_thread_to_sync(Fresh(gctx), tid).g
    /\ UNCHANGED <<mode, prog, order, last, drv, mc>>

\* run_thread_to_sync in the second run
StepSecond(tid) ==
    /\ mode = "pair"
    /\ mc.other.threads[tid + 1].terminated = "none"
    /\ mc' = [mc EXCEPT !.other = run_thread_to_sync(Fresh(mc.other), tid).g]
    /\ UNCHANGED <<mode, prog, order, gctx, last, drv>>

NextPair ==
    \/ \E tid \in 0..(Len(gctx.threads) - 1) : StepFirst(tid)
    \/ \E tid \in 0..(Len(mc.other.threads) - 1) : StepSecond(tid)

SpecPair == InitPair /\ [][NextPair]_vars

Ended(g) == \A t \in Threads(g) : g.threads[t + 1].terminated # "none"

\* the registers of a block that are assigned the id of a thread it spawns
HandleRegs(block) ==
    {prog[block][k].lval.name :
        k \in {j \in 1..Len(prog[block]) :
                  /\ prog[block][j].s = "Assign"
                  /\ prog[block][j].lval.e = "Reg"
                  /\ prog[block][j].expr.e = "Spawn"}}

Renamings(n) ==
    {f \in [0..(n - 1) -> 0..(n - 1)] : \A i, j \in 0..(n - 1) : f[i] = f[j] => i = j}

\* thread ta of state a is thread tb of state b, thread ids renamed by f
SameThread(ta, tb, f) ==
    /\ ta.block = tb.block
    /\ ta.pc = tb.pc
    /\ ta.terminated = tb.terminated
    /\ Values(ta.ctx.globals) = Values(tb.ctx.globals)
    /\ DOMAIN ta.ctx.locals = DOMAIN tb.ctx.locals
    /\ \A r \in DOMAIN ta.ctx.locals :
          tb.ctx.locals[r] = IF r \in HandleRegs(ta.block)
                             THEN f[ta.ctx.locals[r]]
                             ELSE ta.ctx.locals[r]

\* states a and b differ only in the thread ids that the blocks have received
SameUpToRenaming(a, b) ==
    /\ Len(a.threads) = Len(b.threads)
    /\ DOMAIN a.locks = DOMAIN b.locks
    /\ \E f \in Renamings(Len(a.threads)) :
          /\ \A t \in Threads(a) : SameThread(a.threads[t + 1], b.threads[f[t] + 1], f)
          /\ \A v \in DOMAIN a.locks :
                IF HasValue(a.locks[v].owner)
                THEN b.locks[v].owner = Some(f[Value(a.locks[v].owner)])
                ELSE ~HasValue(b.locks[v].owner)

\* C30: two states in which every thread is terminated, and that differ only
\* in the thread ids that the blocks have received, compare equal.
RenamingAbsorbed ==
    (/\ mode = "pair"
     /\ Ended(gctx)
     /\ Ended(mc.other)
     /\ SameUpToRenaming(gctx, mc.other)) =>
        ContextEq(gctx, mc.other)

\* the positions of state g in the list `contexts`
Positions(contexts, g) == {k \in 1..Len(contexts) : contexts[k] = g}

\* the complete nodes of the trace tree that have no child: the traces that
\* the explorer has ended
EndedTraces ==
    {n \in DOMAIN mc.nodes : mc.nodes[n].complete /\ Len(mc.nodes[n].children) = 0}

\* C31: no recorded final state is equal, under operator==, to one recorded
\* before or after it; every failing and every deadlocked state is recorded
\* with its trace among the final states; and no state is both failing and
\* deadlocked.
RecordedOnce ==
    mode = "explore" =>
        /\ \A k \in 1..Len(mc.final_contexts) : \A l \in 1..Len(mc.final_contexts) :
              k # l => ~ContextEq(mc.final_contexts[k], mc.final_contexts[l])
        /\ Len(mc.final_traces) = Len(mc.final_contexts)
        /\ Len(mc.failing_traces) = Len(mc.failing_contexts)
        /\ Len(mc.deadlocked_traces) = Len(mc.deadlocked_contexts)
        /\ \A k \in 1..Len(mc.failing_contexts) :
              \E l \in Positions(mc.final_contexts, mc.failing_contexts[k]) :
                  mc.final_traces[l] = mc.failing_traces[k]
        /\ \A k \in 1..Len(mc.deadlocked_contexts) :
              \E l \in Positions(mc.final_contexts, mc.deadlocked_contexts[k]) :
                  mc.final_traces[l] = mc.deadlocked_traces[k]
        /\ \A k \in 1..Len(mc.failing_contexts) : \A l \in 1..Len(mc.deadlocked_contexts) :
              /\ mc.failing_contexts[k] # mc.deadlocked_contexts[l]
              /\ ~ContextEq(mc.failing_contexts[k], mc.deadlocked_contexts[l])
              /\ ~ContextEq(mc.deadlocked_contexts[l], mc.failing_contexts[k])

\* the explorer has returned with a failing state recorded and with more
\* ended traces than final states: a trace ended in a state that was
\* recorded already
SeenStateSkipped ==
    /\ mc.phase = "exited"
    /\ Len(mc.failing_contexts) >= 1
    /\ Cardinality(EndedTraces) > Len(mc.final_contexts)

\* C32: the lock table has an entry for a name only when a `lock` of that
\* name has been executed: no other statement, and no `unlock`, adds a name.
LockNamesFromLock == DOMAIN gctx.locks \subseteq DOMAIN gctx.entered


\* the statements of the file that is run, before the branching pass:
\* <<k, b, i>> is statement i of block b of the file Branching[k]
StatementsOf(k) ==
    UNION {{<<k, b, i>> : i \in 1..Len(Branching[k][b])} : b \in 1..Len(Branching[k])}

IfSites ==
    UNION {StatementsOf(k) : k \in {j \in 1..Len(Branching) : prog = Lowered(Branching[j])}}

IsIf(site) == Branching[site[1]][site[2]][site[3]].s = "If"

IfAt(site) == Branching[site[1]][site[2]][site[3]]

\* the pc of the if's first statement after the pass
CondPc(site) == Len(branching(SubSeq(Branching[site[1]][site[2]], 1, site[3] - 1)))

ThenPcs(site) == (CondPc(site) + 1)..(CondPc(site) + Len(branching(IfAt(site).then)))

ElsePcs(site) ==
    (CondPc(site) + Len(branching(IfAt(site).then)) + 2)..
        (CondPc(site) + Len(branching(IfAt(site).then)) + 1
             + Len(branching(IfAt(site).else)))

\* the pcs of the statements that thread t was handed in the last call
Ran(t) == {gctx.ev[j].pc : j \in {i \in 1..Len(gctx.ev) :
                                     gctx.ev[i].op = "stmt" /\ gctx.ev[i].tid = t}}

\* the calls of the last driver call in which a thread starts the if at site
Entering(site) ==
    {j \in 1..Len(gctx.ev) :
        /\ gctx.ev[j].op = "stmt"
        /\ gctx.ev[j].tid \in Threads(gctx)
        /\ gctx.threads[gctx.ev[j].tid + 1].block = site[2]
        /\ gctx.ev[j].pc = CondPc(site)}

Plain(block) == \A i \in 1..Len(block) : block[i].s \in {"Nop", "Assign", "Assert"}

Handed == {k \in 1..Len(gctx'.ev) : gctx'.ev[k].op = "stmt"}

\* C34: a call of the driver for a thread that is not terminated returns
\* no_progress exactly when it leaves the thread where it was, and then the
\* one statement it was handed is a join or a lock; when it has moved the
\* thread and not terminated it, it returns progress and the thread is at a
\* sync statement; it returns a termination status exactly when it has set
\* that status.  A call for a terminated thread returns the thread's status,
\* is handed no statement and changes nothing.
DriverResult ==
    [][mode = "free" =>
          LET before == gctx.threads[last'.tid + 1]
              after == gctx'.threads[last'.tid + 1]
          IN  /\ before.terminated # "none" =>
                    /\ last'.out = before.terminated
                    /\ Handed = {}
                    /\ gctx'.threads = gctx.threads
                    /\ gctx'.locks = gctx.locks
                    /\ gctx'.uuid = gctx.uuid
                    /\ gctx'.cache = gctx.cache
              /\ before.terminated = "none" =>
                    /\ last'.out = "no_progress" <=>
                           (after.pc = before.pc /\ after.terminated = "none")
                    /\ last'.out = "no_progress" =>
                           /\ Cardinality(Handed) = 1
                           /\ gctx'.ev[1].s \in {"Join", "Lock"}
                    /\ (after.pc # before.pc /\ after.terminated = "none") =>
                           /\ last'.out = "progress"
                           /\ Handed # {}
                           /\ is_syncing(NextStmt(gctx', last'.tid))
                    /\ last'.out \in TerminationStatus <=> after.terminated # "none"
                    /\ after.terminated # "none" => last'.out = after.terminated]_vars

\* a call has executed statements and stopped with progress at a lock that
\* another thread owns
StoppedAtOwnedLockSeen ==
    /\ mode = "free"
    /\ last.tid \in Threads(gctx)
    /\ last.before = "none"
    /\ last.out = "progress"
    /\ At(gctx, last.tid, "Lock")
    /\ is_owned(LockOf(gctx, NextStmt(gctx, last.tid).var))
    /\ \E k \in 1..Len(gctx.ev) : gctx.ev[k].op = "stmt"

\* C35: a call of the driver that returns no_progress leaves the process
\* state as it was: the threads with their views, pcs and statuses, the
\* locks with their owners and views, and the commit counter.
NoProgressNoChange ==
    [][(mode = "free" /\ last'.out = "no_progress") =>
          /\ gctx'.threads = gctx.threads
          /\ gctx'.locks = gctx.locks
          /\ gctx'.uuid = gctx.uuid]_vars

\* the part of it that holds: a call that returns no_progress and evaluates
\* no spawn leaves the process state as it was
NoProgressNoChangeUnlessSpawn ==
    [][(/\ mode = "free"
        /\ last'.out = "no_progress"
        /\ \A k \in 1..Len(gctx'.ev) : gctx'.ev[k].op # "spawn") =>
          /\ gctx'.threads = gctx.threads
          /\ gctx'.locks = gctx.locks
          /\ gctx'.uuid = gctx.uuid]_vars

\* the process state: the threads in order and the owner of every lock
SameProcessState(a, b) ==
    /\ a.threads = b.threads
    /\ DOMAIN a.locks = DOMAIN b.locks
    /\ \A name \in DOMAIN a.locks : a.locks[name].owner = b.locks[name].owner

\* the state and cursor the next iteration's replay arrives at
Replayed == replay(Fresh(gctx), mc.nodes, mc.cursor)

\* C36: after a restart, replaying the recorded trace prefix arrives at the
\* process state in which that prefix was first explored.
ReplayFidelity ==
    (mc.phase = "loop" /\ mc.cursor = RootTrace /\ Replayed.cursor \in DOMAIN mc.first)
        => SameProcessState(Replayed.g, mc.first[Replayed.cursor])

ReplayedPrefixSeen ==
    /\ mc.phase = "loop"
    /\ mc.cursor = RootTrace
    /\ Len(Replayed.cursor) >= 3
    /\ Replayed.cursor \in DOMAIN mc.first
    /\ SameProcessState(Replayed.g, mc.first[Replayed.cursor])

\* the values of a view: of every global and of every register
ValuesOf(ctx) ==
    [globals |-> [var \in DOMAIN ctx.globals |-> ctx.globals[var].val],
     locals |-> ctx.locals]

\* thread i keeps its status, its pc and the values of its view in this step
Frozen(i) ==
    /\ i <= Len(gctx'.threads)
    /\ gctx'.threads[i].terminated = gctx.threads[i].terminated
    /\ gctx'.threads[i].pc = gctx.threads[i].pc
    /\ gctx'.threads[i].block = gctx.threads[i].block
    /\ ValuesOf(gctx'.threads[i].ctx) = ValuesOf(gctx.threads[i].ctx)

CompletedAtEnd ==
    \A i \in 1..Len(gctx.threads) :
        gctx.threads[i].terminated = "completed"
            <=> gctx.threads[i].pc = Len(prog[gctx.threads[i].block])

\* C37: a thread whose termination status is set keeps that status, its pc
\* and the values of its view in every later step, and a thread has status
\* completed exactly when its pc is the length of its block.
TerminationIsFinal ==
    /\ []CompletedAtEnd
    /\ [][\A i \in 1..Len(gctx.threads) :
              gctx.threads[i].terminated # "none" => Frozen(i)]_vars

\* a completed thread has been joined (its pending writes were committed by
\* the joiner), and a thread that failed was called again
JoinedAfterCompletedSeen ==
    \E k \in 1..Len(gctx.ev) :
        /\ gctx.ev[k].op = "pull"
        /\ gctx.ev[k].by = "Join"
        /\ gctx.ev[k].from + 1 <= Len(gctx.threads)
        /\ gctx.threads[gctx.ev[k].from + 1].terminated = "completed"
        /\ \E var \in DOMAIN gctx.threads[gctx.ev[k].from + 1].ctx.globals :
              Len(gctx.threads[gctx.ev[k].from + 1].ctx.globals[var].history) > 0
        /\ last.tid = gctx.ev[k].tid

StrictlyIncreasing(history) ==
    \A i \in 1..Len(history) : \A j \in 1..Len(history) :
        i < j => history[i] < history[j]

\* C38: every history in a thread's view or a lock's view is strictly
\* increasing in commit identifier, and a pending commit identifier is larger
\* than every identifier in the history of the same variable.
HistoriesIncrease ==
    \A view \in Views : \A var \in DOMAIN view :
        /\ StrictlyIncreasing(view[var].history)
        /\ HasValue(view[var].commit) =>
              \A i \in 1..Len(view[var].history) :
                  view[var].history[i] < Value(view[var].commit)

\* a view has a pending write on top of a history of two writes
LongHistoriesSeen ==
    \E view \in Views : \E var \in DOMAIN view :
        HasValue(view[var].commit) /\ Len(view[var].history) >= 2

\* every variable of the view `old` is in `new`, with a history that starts
\* with the history it has in `old`
MovesForward(old, new) ==
    \A var \in DOMAIN old :
        var \in DOMAIN new /\ IsPrefix(old[var].history, new[var].history)

StoredViewsSettled == \A v \in DOMAIN gctx.locks : Settled(gctx.locks[v].globals)

\* C39: the view stored in a lock only moves forward: a step that replaces
\* it keeps every variable, with the old history as a prefix of the new
\* one, and a stored view never has a pending commit.
StoredViewMovesForward ==
    /\ []StoredViewsSettled
    /\ [][\A v \in DOMAIN gctx.locks :
              /\ v \in DOMAIN gctx'.locks
              /\ MovesForward(gctx.locks[v].globals, gctx'.locks[v].globals)]_vars

\* an unlock has replaced a stored view that had a history by one with a
\* longer history
StoredViewReplacedSeen ==
    \E k \in Releases :
        LET v == gctx.ev[k].from IN
        /\ v \in DOMAIN gctx.entered
        /\ \E var \in DOMAIN gctx.entered[v].stored :
              /\ Len(gctx.entered[v].stored[var].history) >= 1
              /\ var \in DOMAIN gctx.locks[v].globals
              /\ Len(gctx.locks[v].globals[var].history)
                    > Len(gctx.entered[v].stored[var].history)

\* the owner of lock v has released it in the step that is made
ReleasedByOwner(v) ==
    \E k \in 1..Len(gctx'.ev) :
        /\ gctx'.ev[k].op = "release"
        /\ gctx'.ev[k].from = v
        /\ gctx'.ev[k].tid = Value(gctx.locks[v].owner)

Owned(v) == v \in DOMAIN gctx.locks /\ HasValue(gctx.locks[v].owner)

\* C40: a lock whose pull failed is owned by the thread that the data race
\* has terminated; a lock that has an owner keeps it in every step in which
\* that owner does not unlock it; a lock whose owner is terminated keeps it in every
\* step; and every call of a thread whose next statement is a lock of a lock
\* that has an owner, the thread itself included, returns no_progress.
OnlyUnlockReleases ==
    [][/\ \A k \in 1..Len(gctx'.ev) :
             (gctx'.ev[k].op = "pull" /\ gctx'.ev[k].by = "Lock" /\ ~gctx'.ev[k].ok) =>
                 /\ gctx'.locks[gctx'.ev[k].from].owner = Some(gctx'.ev[k].tid)
                 /\ gctx'.threads[gctx'.ev[k].tid + 1].terminated = "datarace_exception"
       /\ \A v \in DOMAIN gctx.locks :
             HasValue(gctx.locks[v].owner) =>
                 /\ gctx'.locks[v].owner # gctx.locks[v].owner => ReleasedByOwner(v)
                 /\ gctx.threads[Value(gctx.locks[v].owner) + 1].terminated # "none"
                       => gctx'.locks[v].owner = gctx.locks[v].owner
       /\ (/\ mode = "free"
           /\ gctx.threads[last'.tid + 1].terminated = "none"
           /\ NextStmt(gctx, last'.tid).s = "Lock"
           /\ Owned(NextStmt(gctx, last'.tid).var))
              => /\ last'.out = "no_progress"
                 /\ gctx'.locks = gctx.locks]_vars

\* a thread whose lock ended in a data race still owns the lock, and the
\* last call, of another thread at a lock of it, returned no_progress
LockOfFailedOwnerSeen ==
    \E v \in DOMAIN gctx.locks :
        /\ HasValue(gctx.locks[v].owner)
        /\ gctx.threads[Value(gctx.locks[v].owner) + 1].terminated = "datarace_exception"
        /\ mode = "free"
        /\ last.tid >= 0
        /\ last.tid # Value(gctx.locks[v].owner)
        /\ last.out = "no_progress"
        /\ gctx.threads[last.tid + 1].terminated = "none"
        /\ NextStmt(gctx, last.tid).s = "Lock"
        /\ NextStmt(gctx, last.tid).var = v
====
